---------------------------- MODULE Spec2Model ----------------------------
(***************************************************************************)
(* Model of the anonic relay bot (src/bot): the SQLite store, the /start   *)
(* handler, the web share endpoint, the anonymous message handler and the  *)
(* inactivity scheduler.                                                   *)
(*                                                                         *)
(* Every handler is a coroutine on one asyncio loop.  It runs without      *)
(* interruption from one await to the next, so a handler is modelled as a  *)
(* sequence of steps, one per await that really suspends (a store write, a *)
(* call of the Telegram API).  A store write is queued on the single       *)
(* aiosqlite connection and is visible to the readers once committed; the  *)
(* step that follows the await applies the write and then runs the         *)
(* synchronous code up to the next await.  gstr() never suspends.          *)
(*                                                                         *)
(* Time is in seconds.  Timestamps are stored as ISO-8601 UTC strings,     *)
(* whose string order is the order of the instants, so they are modelled   *)
(* as integers.                                                            *)
(***************************************************************************)
EXTENDS Integers, Sequences, FiniteSets, TLC

VARIABLES
    now,                 \* datetime.now(timezone.utc), in seconds
    banned,              \* users.banned
    ban_expires_at,      \* users.ban_expires_at (NoTime = NULL)
    revoke_count,        \* users.revoke_count; token and nickname of a user are <<id, revoke_count>>
    last_revoke,         \* users.last_revoke (NoTime = NULL)
    blocks,              \* table blocks: set of rows
    pending_targets,     \* table pending_targets, one row per sender
    message_timestamps,  \* table message_timestamps, per (user_id, target_id)
    temp_links,          \* table temp_links, per token
    unban_tasks,         \* per user, the tasks created by is_banned that have not run:
                         \* asyncio.create_task(unban_user)
    hs,                  \* the handler coroutines in flight, per slot
    reports,             \* spam reports sent to the moderation chat, per sender
    autobans,            \* auto-suspensions stored (ban_user wrote the ban), per sender
    janitor_runs,        \* runs of the scheduler job check_inactive_users
    messages,            \* table messages: set of rows (bot_msg_id, sender_id, receiver_id,
                         \* timestamp)
    messages_sent,       \* users.messages_sent
    messages_received,   \* users.messages_received
    special_code,        \* users.special_code (NoCode = empty)
    code_tasks,          \* tasks created by get_user_special_code: create_task(_set_special_code)
    revoke_history,      \* table revoke_history: set of rows
    revoke_answer,       \* the last callback.answer of revoke_callback, per user
    allowed_types,       \* users.allowed_types, per user, as a set of tags
    inactivity_notices   \* 'inactivity_disconnect' messages sent by the scheduler job, per user

vars == <<now, banned, ban_expires_at, revoke_count, last_revoke, blocks, pending_targets,
          message_timestamps, temp_links, unban_tasks, hs, reports, autobans,
          janitor_runs, messages, messages_sent, messages_received, special_code,
          code_tasks, revoke_history, revoke_answer, allowed_types,
          inactivity_notices>>

----------------------------------------------------------------------------
(* Bounds of the model *)

MaxUses == 2         \* largest max_uses of a temp link that is created
MaxTicks == 2        \* clock advances in a behaviour
MaxMsgs == 1         \* messages in a window when the message limit is not the subject
MaxRevokes == 2      \* identity rotations per user
MaxCalls == 4        \* record-and-check calls of a caller of the message window
MaxTasks == 2        \* unban tasks of a user that are waiting to run
MaxIds == 3          \* identifiers of messages that the bot has sent

(* Program constants *)

SpamLimit == 60          \* message_count > 60
WindowSecs == 60         \* timedelta(seconds=60)
BanSecs == 86400         \* timedelta(days=1)
PendingTimeoutSecs == 300 \* timeout_minutes = 5
SweepSecs == 60          \* scheduler.add_job(..., 'interval', minutes=1)
RevokeCooldownDays == 7  \* days_since < 7
RetentionSecs == 86400   \* max_age_hours = 24

None == "none"
NoTime == 0 - 1
NoLimit == 0 - 1
NoCode == <<"", 0>>
NoAnswer == <<"", 0>>

Users == {"u1", "u2", "u3"}
\* the content-type tags that are modelled, out of SQLiteStore.VALID_TYPES, and
\* those of them in SQLiteStore.DEFAULT_ALLOWED
Tags == {"text", "photo", "url", "poll"}
VALID_TYPES == {"all"} \cup Tags
DEFAULT_ALLOWED == {"text", "photo", "url"}
TempTokens == {<<"t1", 0>>, <<"t2", 0>>}   \* secrets.token_urlsafe(12): never a permanent token
Slots == {1, 2}          \* handler coroutines in flight at once

\* The permanent token and the nickname of a user: generate_token() and
\* generate_nickname() draw random values, taken here to differ from every value
\* drawn before, so that they are named by the user and its rotation count.
PermToken(u) == <<u, revoke_count[u]>>
Nickname(u) == <<u, revoke_count[u]>>

NoPending == [target_id |-> None, created_at |-> NoTime]
NoLink == [exists |-> FALSE, user_id |-> None, expires_at |-> NoTime,
           max_uses |-> NoLimit, current_uses |-> 0, active |-> FALSE]

\* the pairs (sender, target) whose message window is exercised on its own
WindowPairs == {<<"u1", "u2">>, <<"u2", "u1">>}

\* the local variables of a handler coroutine; calls is the record that a caller
\* of the message window keeps of the instants of its calls
IdleSlot == [pc |-> "idle", kind |-> "none", uid |-> None, tok |-> None,
             reply |-> None, path |-> None, old |-> None,
             target |-> None, via |-> None, pt_created |-> NoTime,
             route_at |-> NoTime, ts |-> NoTime, count |-> 0,
             ban_write |-> FALSE, expires |-> NoTime, outcome |-> None,
             consumed |-> FALSE, overlap |-> FALSE,
             types |-> <<>>, blocked_type |-> None, listed |-> {},
             calls |-> [p \in WindowPairs |-> <<>>]]

Free(i) == hs[i].pc \in {"idle", "done"}

\* the handler returns: what it did is kept (the count when the message was
\* rejected for quota, the identifier of an /unblock), its other locals are
\* dropped
Finish(i, rec, out) ==
    [hs EXCEPT ![i] = [IdleSlot EXCEPT !.pc = "done", !.outcome = out,
                                       !.kind = rec.kind, !.uid = rec.uid,
                                       !.tok = rec.tok, !.target = rec.target,
                                       !.reply = IF rec.kind = "unblock" THEN rec.reply
                                                 ELSE None,
                                       !.via = rec.via, !.pt_created = rec.pt_created,
                                       !.route_at = rec.route_at,
                                       !.ts = IF out = "quota" THEN rec.ts ELSE NoTime,
                                       !.count = IF out = "quota" THEN rec.count ELSE 0,
                                       !.expires = IF out = "quota" THEN rec.expires
                                                   ELSE NoTime,
                                       !.consumed = rec.consumed,
                                       !.overlap = rec.overlap,
                                       !.types = rec.types,
                                       !.blocked_type = rec.blocked_type,
                                       !.listed = rec.listed]]

----------------------------------------------------------------------------
(* SQLiteStore: reads *)

\* is_banned: the stored flag, unless the stored expiry has passed
BanExpired(u) ==
    /\ banned[u]
    /\ ban_expires_at[u] # NoTime
    /\ now > ban_expires_at[u]

is_banned(u) == banned[u] /\ ~BanExpired(u)

\* is_banned creates a task unban_user(u) when it finds the stored ban expired
TasksAfterIsBanned(tasks, u) ==
    IF BanExpired(u) THEN [tasks EXCEPT ![u] = @ + 1] ELSE tasks

is_blocked_by_nickname(recipient, blocked) ==
    \E r \in blocks : r.recipient_id = recipient /\ r.nickname = Nickname(blocked)

is_blocked_by_user_id(recipient, blocked) ==
    \E r \in blocks : r.recipient_id = recipient /\ r.blocked_user_id = blocked

\* The mutant derives the code from the nickname of the user.
generate_special_code_FromNickname(u) == <<u, 0 - 1 - revoke_count[u]>>

\* sha256 of "anonic_{user_id}_uid", 8 characters: a function of the user id
\* alone, in an alphabet of its own
generate_special_code(u) == <<u, 0 - 1>>

\* an empty stored code is generated again and a task is created to store it
get_user_special_code(u) ==
    IF special_code[u] = NoCode THEN generate_special_code(u) ELSE special_code[u]

TasksAfterGetSpecialCode(tasks, u) ==
    IF special_code[u] = NoCode THEN tasks \cup {u} ELSE tasks

\* identifier.lower() in nickname.lower(): an identifier is contained in the
\* nickname that it is, and AnyPart is a piece of text that every nickname
\* contains
AnyPart == <<"*", 0>>
Contains(nickname, identifier) == identifier = nickname \/ identifier = AnyPart

is_user_blocked(recipient, identifier) ==
    \E r \in blocks : /\ r.recipient_id = recipient
                      /\ (r.special_code = identifier \/ Contains(r.nickname, identifier))

\* what a handler reads: table messages has no rows, no handler calls
\* store_message
get_message_sender == None

\* SELECT * FROM messages WHERE bot_msg_id = ?
get_message_data(bot_msg_id) == {m \in messages : m.bot_msg_id = bot_msg_id}

\* The mutant also looks the token up among the archived tokens.
get_by_token_WithArchive(tok) ==
    IF \E u \in Users : PermToken(u) = tok
    THEN CHOOSE u \in Users : PermToken(u) = tok
    ELSE IF \E r \in revoke_history : r.old_token = tok
    THEN (CHOOSE r \in revoke_history : r.old_token = tok).user_id
    ELSE None

\* SELECT * FROM users WHERE token = ?
get_by_token(tok) ==
    IF \E u \in Users : PermToken(u) = tok
    THEN CHOOSE u \in Users : PermToken(u) = tok
    ELSE None

get_pending_target(u) == pending_targets[u].target_id

\* json.loads of the column; a row written by add_user, lock_type,
\* unlock_type or reset_allowed_types is never NULL or empty
get_allowed_types(u) == allowed_types[u]

LinkExpired(link) == link.expires_at # NoTime /\ now > link.expires_at

\* The mutant lets a link resolve until its uses exceed the limit.
LinkExhausted_OverTheLimit(link) ==
    link.max_uses # NoLimit /\ link.current_uses > link.max_uses

\* max_uses is not None and (current_uses or 0) >= max_uses
LinkExhausted(link) == link.max_uses # NoLimit /\ link.current_uses >= link.max_uses

get_user_by_temp_link(tok) ==
    IF tok \notin TempTokens THEN None
    ELSE LET link == temp_links[tok] IN
         IF ~link.exists \/ ~link.active THEN None
         ELSE IF LinkExpired(link) THEN None
         ELSE IF LinkExhausted(link) THEN None
         ELSE link.user_id

\* The mutant returns every row of the user with active = 1.
get_active_temp_links_Unfiltered(user_id) ==
    {t \in TempTokens : /\ temp_links[t].exists
                        /\ temp_links[t].user_id = user_id
                        /\ temp_links[t].active}

\* the rows of the user with active = 1, without those that are past their
\* expires_at (compared as ISO strings of UTC instants, which order as the
\* instants do) and those with current_uses >= max_uses
get_active_temp_links(user_id) ==
    {t \in TempTokens : /\ temp_links[t].exists
                        /\ temp_links[t].user_id = user_id
                        /\ temp_links[t].active
                        /\ ~(temp_links[t].expires_at # NoTime
                               /\ now > temp_links[t].expires_at)
                        /\ ~(temp_links[t].max_uses # NoLimit
                               /\ temp_links[t].current_uses >= temp_links[t].max_uses)}

\* The mutant counts and keeps the timestamps after the cutoff only.
InWindow_AfterCutoff(seq, cutoff) == SelectSeq(seq, LAMBDA t : t > cutoff)

\* timestamp >= cutoff: the rows that are counted, and the rows that
\* DELETE ... timestamp < cutoff leaves
InWindow(seq, cutoff) == SelectSeq(seq, LAMBDA t : t >= cutoff)

get_message_count_in_window(u, t) ==
    Len(InWindow(message_timestamps[<<u, t>>], now - WindowSecs))

get_expired_pending_targets ==
    {u \in Users : /\ pending_targets[u].target_id # None
                   /\ pending_targets[u].created_at < now - PendingTimeoutSecs}

----------------------------------------------------------------------------
(* SQLiteStore: writes, as the value of the table after the commit *)

\* The mutant counts a use of every row, active or not.
use_temp_link_AnyRow(links, tok) ==
    IF tok \in TempTokens /\ links[tok].exists
    THEN [links EXCEPT ![tok].current_uses = @ + 1]
    ELSE links

\* the value that use_temp_link returns: cur.rowcount > 0
use_temp_link_returns(links, tok) ==
    tok \in TempTokens /\ links[tok].exists /\ links[tok].active

\* UPDATE temp_links SET current_uses = current_uses + 1 WHERE token = ? AND
\* active = 1
use_temp_link(links, tok) ==
    IF tok \in TempTokens /\ links[tok].exists /\ links[tok].active
    THEN [links EXCEPT ![tok].current_uses = @ + 1]
    ELSE links

\* UPDATE temp_links SET active = 0 WHERE token = ? AND user_id = ?
revoke_temp_link(links, tok, user_id) ==
    IF tok \in TempTokens /\ links[tok].exists /\ links[tok].user_id = user_id
    THEN [links EXCEPT ![tok].active = FALSE]
    ELSE links

\* DELETE FROM temp_links WHERE token = ? AND user_id = ?
delete_temp_link(links, tok, user_id) ==
    IF tok \in TempTokens /\ links[tok].exists /\ links[tok].user_id = user_id
    THEN [links EXCEPT ![tok] = NoLink]
    ELSE links

\* INSERT OR REPLACE INTO messages, whose primary key is bot_msg_id
store_message(msgs, bot_msg_id, sender_id, receiver_id, at) ==
    {m \in msgs : m.bot_msg_id # bot_msg_id}
       \cup {[bot_msg_id |-> bot_msg_id, sender_id |-> sender_id,
               receiver_id |-> receiver_id, timestamp |-> at]}

\* The mutant keeps the created_at of the row that it replaces.
set_pending_target_KeepCreatedAt(pt, sender, target, at) ==
    [pt EXCEPT ![sender] = [target_id |-> target,
                            created_at |-> IF @.target_id = None THEN at
                                           ELSE @.created_at]]

\* INSERT OR REPLACE INTO pending_targets, whose primary key is sender_id
set_pending_target(pt, sender, target, at) ==
    [pt EXCEPT ![sender] = [target_id |-> target, created_at |-> at]]

clear_pending_target(pt, sender) == [pt EXCEPT ![sender] = NoPending]

\* The mutant stores one row per instant: a second message handled at the same
\* instant adds nothing.
add_message_timestamp_OncePerInstant(mt, u, t, at) ==
    IF \E k \in 1..Len(mt[<<u, t>>]) : mt[<<u, t>>][k] = at
    THEN mt
    ELSE [mt EXCEPT ![<<u, t>>] = InWindow(Append(@, at), at - WindowSecs)]

\* INSERT of the timestamp, then DELETE of the rows of the pair before the cutoff
add_message_timestamp(mt, u, t, at) ==
    [mt EXCEPT ![<<u, t>>] = InWindow(Append(@, at), at - WindowSecs)]

block(bl, recipient, blocked, nickname) ==
    IF \E r \in bl : r.recipient_id = recipient /\ r.blocked_user_id = blocked
    THEN bl                                   \* INSERT OR IGNORE, UNIQUE(recipient_id, blocked_user_id)
    ELSE bl \cup {[recipient_id |-> recipient, blocked_user_id |-> blocked,
                   nickname |-> nickname,
                   special_code |-> get_user_special_code(blocked)]}

\* The mutant deletes every row whose nickname contains the identifier.
unblock_EveryMatch(bl, recipient, identifier) ==
    LET byCode == {r \in bl : r.recipient_id = recipient /\ r.special_code = identifier}
        byNick == {r \in bl : r.recipient_id = recipient
                                /\ Contains(r.nickname, identifier)}
    IN  IF byCode # {} THEN {bl \ byCode} ELSE {bl \ byNick}

\* DELETE by special code; failing that, DELETE of the first row whose nickname
\* contains the identifier, in the order in which a SELECT without ORDER BY
\* returns the rows of the recipient.  The value is the set of the tables
\* that can result, one for each row that can come first.
unblock(bl, recipient, identifier) ==
    LET byCode == {r \in bl : r.recipient_id = recipient /\ r.special_code = identifier}
        byNick == {r \in bl : r.recipient_id = recipient
                                /\ Contains(r.nickname, identifier)}
    IN  IF byCode # {} THEN {bl \ byCode}
        ELSE IF byNick # {} THEN {bl \ {r} : r \in byNick}
        ELSE {bl}

\* the value that unblock returns: True after either DELETE, else False
unblock_returns(bl, recipient, identifier) ==
    \/ \E r \in bl : r.recipient_id = recipient /\ r.special_code = identifier
    \/ \E r \in bl : r.recipient_id = recipient /\ Contains(r.nickname, identifier)

\* lock_type: "all" keeps "text" only; a single type other than "text" is
\* removed when it is in the list
lock_type(al, u, msg_type) ==
    IF msg_type = "all" THEN [al EXCEPT ![u] = {t \in @ : t = "text"}]
    ELSE IF msg_type \in VALID_TYPES /\ msg_type \notin {"text", "all"} /\ msg_type \in al[u]
    THEN [al EXCEPT ![u] = @ \ {msg_type}]
    ELSE al

\* unlock_type: "all" adds every valid type; a single type other than "text"
\* is added when it is not in the list
unlock_type(al, u, msg_type) ==
    IF msg_type = "all" THEN [al EXCEPT ![u] = @ \cup (VALID_TYPES \ {"text", "all"})]
    ELSE IF msg_type \in VALID_TYPES /\ msg_type \notin {"text", "all"} /\ msg_type \notin al[u]
    THEN [al EXCEPT ![u] = @ \cup {msg_type}]
    ELSE al

create_temp_link(links, tok, owner, days, max_uses) ==
    [links EXCEPT ![tok] = [exists |-> TRUE, user_id |-> owner,
                            expires_at |-> IF days > 0 THEN now + days * 86400 ELSE NoTime,
                            max_uses |-> max_uses, current_uses |-> 0,
                            active |-> TRUE]]

----------------------------------------------------------------------------
(* handlers/common.py: can_connect, up to its await of client.get_chat.     *)
(* "" means that no store check refused and get_chat is called.             *)

\* The mutant leaves out the check of the sender's own block list.
can_connect_store_OneWay(user_id, target_id) ==
    IF is_banned(target_id) THEN "banned"
    ELSE IF is_blocked_by_user_id(target_id, user_id) THEN "blocked"
    ELSE ""

can_connect_store(user_id, target_id) ==
    IF is_banned(target_id) THEN "banned"
    ELSE IF is_blocked_by_user_id(target_id, user_id) THEN "blocked"
    ELSE IF is_blocked_by_user_id(user_id, target_id) THEN "self_blocked"
    ELSE ""

\* the outcomes of client.get_chat, as can_connect classifies them
ChatResults == {"", "blocked", "deactivated", "invalid_peer", "frozen"}

----------------------------------------------------------------------------
(* handlers/temp_links.py: temp_link_callback with action "create" *)

\* callback data "tl:create:{expiry_days}:{max_uses}"; 0 days is passed as None
\* and the limit as None when it is not positive (NoLimit)
CreateTempLink(owner, tok, expiry_days, max_uses) ==
    /\ ~temp_links[tok].exists               \* secrets.token_urlsafe(12) is fresh
    /\ temp_links' = create_temp_link(temp_links, tok, owner, expiry_days, max_uses)
    /\ UNCHANGED <<messages, messages_sent, messages_received, special_code, code_tasks,
                   revoke_history, revoke_answer,
                   now, banned, ban_expires_at, revoke_count, last_revoke, blocks, pending_targets,
                   message_timestamps, unban_tasks, hs, reports, autobans, janitor_runs, allowed_types, inactivity_notices>>

\* activelinks_cmd: the links that get_active_temp_links returns are shown
ActiveLinksCmd(i, uid) ==
    /\ Free(i)
    /\ unban_tasks' = TasksAfterIsBanned(unban_tasks, uid)
    /\ LET rec == [IdleSlot EXCEPT !.kind = "links", !.uid = uid] IN
       IF is_banned(uid)
       THEN hs' = Finish(i, rec, "banned")
       ELSE hs' = Finish(i, [rec EXCEPT !.listed = get_active_temp_links(uid)], "listed")
    /\ UNCHANGED <<messages, messages_sent, messages_received, special_code, code_tasks,
                   revoke_history, revoke_answer,
                   now, banned, ban_expires_at, revoke_count, last_revoke, blocks, pending_targets,
                   message_timestamps, temp_links, reports, autobans, janitor_runs,
                   allowed_types, inactivity_notices>>

\* activelinks_callback with action "del": the token is looked up among the
\* links of the user, then delete_temp_link
DeleteTempLink(uid, tok) ==
    /\ temp_links[tok].exists /\ temp_links[tok].user_id = uid
    /\ temp_links' = delete_temp_link(temp_links, tok, uid)
    /\ UNCHANGED <<messages, messages_sent, messages_received, special_code, code_tasks,
                   revoke_history, revoke_answer,
                   now, banned, ban_expires_at, revoke_count, last_revoke, blocks, pending_targets,
                   message_timestamps, unban_tasks, hs, reports, autobans, janitor_runs,
                   allowed_types, inactivity_notices>>

\* SQLiteStore.revoke_temp_link, called on the store: no handler calls it
RevokeTempLink(tok, user_id) ==
    /\ temp_links[tok].exists
    /\ temp_links' = revoke_temp_link(temp_links, tok, user_id)
    /\ UNCHANGED <<messages, messages_sent, messages_received, special_code, code_tasks,
                   revoke_history, revoke_answer,
                   now, banned, ban_expires_at, revoke_count, last_revoke, blocks, pending_targets,
                   message_timestamps, unban_tasks, hs, reports, autobans, janitor_runs,
                   allowed_types, inactivity_notices>>

----------------------------------------------------------------------------
(* handlers/start.py: start_cmd with a token argument *)

\* after the target is known: the self check and can_connect up to get_chat
\* The mutant leaves out the comparison of the visitor with the owner.
StartConnect_NoSelfCheck(i, rec) ==
    LET reason == can_connect_store(rec.uid, rec.target) IN
    IF reason # "" THEN Finish(i, rec, reason)
    ELSE [hs EXCEPT ![i] = [rec EXCEPT !.pc = "s_chat"]]

StartConnect(i, rec) ==
    IF rec.uid = rec.target THEN Finish(i, rec, "self")
    ELSE LET reason == can_connect_store(rec.uid, rec.target) IN
         IF reason # "" THEN Finish(i, rec, reason)
         ELSE [hs EXCEPT ![i] = [rec EXCEPT !.pc = "s_chat"]]

StartBegin(i, uid, tok) ==
    /\ Free(i)
    /\ LET rec == [IdleSlot EXCEPT !.kind = "start", !.uid = uid, !.tok = tok] IN
       IF is_banned(uid)
       THEN /\ hs' = Finish(i, rec, "ignored")
            /\ unban_tasks' = unban_tasks
       ELSE /\ unban_tasks' = TasksAfterIsBanned(unban_tasks, uid)
            /\ IF get_by_token(tok) # None
               THEN hs' = StartConnect(i, [rec EXCEPT !.target = get_by_token(tok)])
               ELSE IF get_user_by_temp_link(tok) # None
               THEN hs' = [hs EXCEPT ![i] = [rec EXCEPT !.pc = "s_use",
                                                 !.target = get_user_by_temp_link(tok)]]
               ELSE hs' = Finish(i, rec, "invalid_token")
    /\ UNCHANGED <<messages, messages_sent, messages_received, special_code, code_tasks,
                   revoke_history, revoke_answer,
                   now, banned, ban_expires_at, revoke_count, last_revoke, blocks, pending_targets,
                   message_timestamps, temp_links, reports, autobans, janitor_runs, allowed_types, inactivity_notices>>

\* The mutant compares the visitor with the owner before it counts the use.
StartUse_SelfCheckFirst(i) ==
    /\ hs[i].pc = "s_use"
    /\ temp_links' = IF hs[i].uid = hs[i].target THEN temp_links
                     ELSE use_temp_link(temp_links, hs[i].tok)
    /\ hs' = StartConnect(i, [hs[i] EXCEPT !.consumed = (hs[i].uid # hs[i].target)])
    /\ unban_tasks' = TasksAfterIsBanned(unban_tasks, hs[i].target)
    /\ UNCHANGED <<messages, messages_sent, messages_received, special_code, code_tasks,
                   revoke_history, revoke_answer,
                   now, banned, ban_expires_at, revoke_count, last_revoke, blocks, pending_targets,
                   message_timestamps, reports, autobans, janitor_runs, allowed_types, inactivity_notices>>

\* await store.use_temp_link(token), then the connection checks
StartUse(i) ==
    /\ hs[i].pc = "s_use"
    /\ temp_links' = use_temp_link(temp_links, hs[i].tok)
    /\ hs' = StartConnect(i, [hs[i] EXCEPT !.consumed = TRUE])
    /\ unban_tasks' = TasksAfterIsBanned(unban_tasks, hs[i].target)
    /\ UNCHANGED <<messages, messages_sent, messages_received, special_code, code_tasks,
                   revoke_history, revoke_answer,
                   now, banned, ban_expires_at, revoke_count, last_revoke, blocks, pending_targets,
                   message_timestamps, reports, autobans, janitor_runs, allowed_types, inactivity_notices>>

\* client.get_chat returns or raises; on success set_pending_target is called
StartChat(i, res) ==
    /\ hs[i].pc = "s_chat"
    /\ IF res = ""
       THEN hs' = [hs EXCEPT ![i].pc = "s_set", ![i].ts = now]
       ELSE hs' = Finish(i, hs[i], res)
    /\ UNCHANGED <<messages, messages_sent, messages_received, special_code, code_tasks,
                   revoke_history, revoke_answer,
                   now, banned, ban_expires_at, revoke_count, last_revoke, blocks, pending_targets,
                   message_timestamps, temp_links, unban_tasks, reports, autobans,
                   janitor_runs, allowed_types, inactivity_notices>>

StartSet(i) ==
    /\ hs[i].pc = "s_set"
    /\ pending_targets' = set_pending_target(pending_targets, hs[i].uid, hs[i].target, hs[i].ts)
    /\ hs' = Finish(i, hs[i], "connected")
    /\ UNCHANGED <<messages, messages_sent, messages_received, special_code, code_tasks,
                   revoke_history, revoke_answer,
                   now, banned, ban_expires_at, revoke_count, last_revoke, blocks, message_timestamps,
                   temp_links, unban_tasks, reports, autobans, janitor_runs, allowed_types, inactivity_notices>>

----------------------------------------------------------------------------
(* webapp.py: POST /api/send *)

WebBegin(i, tok) ==
    /\ Free(i)
    /\ LET byToken == get_by_token(tok)
           target == IF byToken # None THEN byToken ELSE get_user_by_temp_link(tok)
           rec == [IdleSlot EXCEPT !.kind = "web", !.tok = tok, !.target = target]
       IN  IF target = None THEN
                /\ hs' = Finish(i, rec, "not_found")
                /\ unban_tasks' = unban_tasks
           ELSE /\ unban_tasks' = TasksAfterIsBanned(unban_tasks, target)
                /\ IF is_banned(target) THEN hs' = Finish(i, rec, "not_found")
                   ELSE IF byToken = None
                   THEN hs' = [hs EXCEPT ![i] = [rec EXCEPT !.pc = "w_use"]]
                   ELSE hs' = Finish(i, rec, "web_sent")
    /\ UNCHANGED <<messages, messages_sent, messages_received, special_code, code_tasks,
                   revoke_history, revoke_answer,
                   now, banned, ban_expires_at, revoke_count, last_revoke, blocks, pending_targets,
                   message_timestamps, temp_links, reports, autobans, janitor_runs, allowed_types, inactivity_notices>>

\* await store.use_temp_link(body.token); the message is then stored and sent
WebUse(i) ==
    /\ hs[i].pc = "w_use"
    /\ temp_links' = use_temp_link(temp_links, hs[i].tok)
    /\ hs' = Finish(i, [hs[i] EXCEPT !.consumed = TRUE], "web_sent")
    /\ UNCHANGED <<messages, messages_sent, messages_received, special_code, code_tasks,
                   revoke_history, revoke_answer,
                   now, banned, ban_expires_at, revoke_count, last_revoke, blocks, pending_targets,
                   message_timestamps, unban_tasks, reports, autobans, janitor_runs, allowed_types, inactivity_notices>>

----------------------------------------------------------------------------
(* handlers/messaging.py: anonymous_handler *)

\* The methods the handlers call on the store that class SQLiteStore defines; a
\* call of any other method raises AttributeError.
SQLiteStoreMethods ==
    {"get_user", "is_banned", "update_last_activity", "get_connection",
     "find_user_by_nickname", "end_connection", "get_allowed_types",
     "add_message_timestamp", "get_message_count_in_window", "ban_user",
     "get_user_language", "get_pending_target", "clear_pending_target",
     "cleanup_expired_pending_targets", "store_message", "get_chat_partner",
     "get_expired_pending_targets", "revoke_user", "block", "unblock",
     "is_user_blocked", "unban_user"}

Raises(method) == method \notin SQLiteStoreMethods

\* The mutant also finds a user by a nickname it held before a rotation.
find_user_by_nickname_AnyGeneration(nick) ==
    IF \E u \in Users : nick \in {<<u, g>> : g \in 0..revoke_count[u]}
    THEN CHOOSE u \in Users : nick \in {<<u, g>> : g \in 0..revoke_count[u]}
    ELSE None

\* SELECT telegram_id FROM users WHERE nickname = ?
find_user_by_nickname(nick) ==
    IF \E u \in Users : Nickname(u) = nick
    THEN CHOOSE u \in Users : Nickname(u) = nick
    ELSE None

\* the outcomes of send_message_to_target, as the except clauses classify them
SendResults == {"ok", "send_blocked", "send_deactivated", "send_flood",
                "send_invalid_peer", "send_other"}

OverLimit_AtTheLimit(count) == count >= SpamLimit

\* message_count > 60
OverLimit(count) == count > SpamLimit

\* can_connect refused: the reply branch returns, the connection branch ends the
\* connection first (await store.end_connection)
MsgRefused(i, rec, reason) ==
    IF rec.path = "reply" THEN Finish(i, rec, reason)
    ELSE [hs EXCEPT ![i] = [rec EXCEPT !.pc = "m_clear", !.outcome = reason]]

\* types is the list that get_message_types returns, list(set(types)): the tags
\* of the message in the order of iteration of a set
MsgBeginTyped(i, uid, reply, types) ==
    /\ Free(i)
    /\ LET rec == [IdleSlot EXCEPT !.kind = "msg", !.uid = uid, !.reply = reply,
                                   !.types = types] IN
       IF is_banned(uid)
       THEN hs' = Finish(i, rec, "banned")
       ELSE hs' = [hs EXCEPT ![i] = [rec EXCEPT !.pc = "m_route"]]
    /\ unban_tasks' = TasksAfterIsBanned(unban_tasks, uid)
    /\ UNCHANGED <<messages, messages_sent, messages_received, special_code, code_tasks,
                   revoke_history, revoke_answer,
                   now, banned, ban_expires_at, revoke_count, last_revoke, blocks, pending_targets,
                   message_timestamps, temp_links, reports, autobans, janitor_runs, allowed_types, inactivity_notices>>

\* a message that is text without entities
MsgBegin(i, uid, reply) == MsgBeginTyped(i, uid, reply, <<"text">>)

\* The mutant puts the first tag of the message at the head of the list.
blocked_types_HeadOfMessage(types, target) ==
    IF \E k \in 1..Len(types) : types[k] \notin get_allowed_types(target) /\ types[k] # "text"
    THEN <<types[1]>>
    ELSE <<>>

\* [t for t in msg_types if t not in allowed_types and t != "text"]
blocked_types(types, target) ==
    SelectSeq(types, LAMBDA t : t \notin get_allowed_types(target) /\ t # "text")

\* another message of the sender is being handled, already routed through the
\* pending target that is stored now
InFlightOn(j, uid, target) ==
    /\ hs[j].kind = "msg"
    /\ hs[j].pc \in {"m_chat", "m_stamp", "m_count", "m_send"}
    /\ hs[j].uid = uid
    /\ hs[j].via = "pending"
    /\ hs[j].target = target
    /\ hs[j].pt_created = pending_targets[uid].created_at

\* after update_last_activity: the destination is determined and can_connect runs
\* up to get_chat
MsgRoute(i) ==
    /\ hs[i].pc = "m_route"
    /\ LET uid == hs[i].uid
           old == get_pending_target(uid)
           byReply == IF hs[i].reply = None THEN None
                      ELSE find_user_by_nickname(hs[i].reply)
           useReply == byReply # None /\ byReply # uid
           target == IF useReply THEN byReply ELSE old
           rec == [hs[i] EXCEPT
                     !.old = old,
                     !.path = IF hs[i].reply = None THEN "connection" ELSE "reply",
                     !.target = target,
                     !.via = IF useReply THEN "reply" ELSE "pending",
                     !.pt_created = IF useReply THEN NoTime
                                    ELSE pending_targets[uid].created_at,
                     !.route_at = now,
                     !.overlap = ~useReply /\ \E j \in Slots \ {i} : InFlightOn(j, uid, old)]
       IN  IF target = None
           THEN /\ hs' = Finish(i, rec, IF hs[i].reply = None THEN "no_connection"
                                        ELSE "reply_not_found")
                /\ unban_tasks' = unban_tasks
           ELSE /\ unban_tasks' = TasksAfterIsBanned(unban_tasks, target)
                /\ IF can_connect_store(uid, target) # ""
                   THEN hs' = MsgRefused(i, rec, can_connect_store(uid, target))
                   ELSE hs' = [hs EXCEPT ![i] = [rec EXCEPT !.pc = "m_chat"]]
    /\ UNCHANGED <<messages, messages_sent, messages_received, special_code, code_tasks,
                   revoke_history, revoke_answer,
                   now, banned, ban_expires_at, revoke_count, last_revoke, blocks, pending_targets,
                   message_timestamps, temp_links, reports, autobans, janitor_runs, allowed_types, inactivity_notices>>

\* get_chat returns or raises.  On success of a reply the connection is switched,
\* through store.get_message_count and store.start_connection; then the tags of
\* the message are checked against the allowed types of the target, and the
\* rate check begins with add_message_timestamp.
MsgChat(i, res) ==
    /\ hs[i].pc = "m_chat"
    /\ IF res # "" THEN hs' = MsgRefused(i, hs[i], res)
       ELSE IF /\ hs[i].path = "reply"
               /\ hs[i].old # hs[i].target
               /\ (Raises("get_message_count") \/ Raises("start_connection"))
       THEN hs' = Finish(i, hs[i], "attribute_error")
       ELSE IF blocked_types(hs[i].types, hs[i].target) # <<>>
       THEN hs' = Finish(i, [hs[i] EXCEPT !.blocked_type =
                                 blocked_types(hs[i].types, hs[i].target)[1]],
                         "type_blocked")
       ELSE hs' = [hs EXCEPT ![i].pc = "m_stamp", ![i].ts = now]
    /\ UNCHANGED <<messages, messages_sent, messages_received, special_code, code_tasks,
                   revoke_history, revoke_answer,
                   now, banned, ban_expires_at, revoke_count, last_revoke, blocks, pending_targets,
                   message_timestamps, temp_links, unban_tasks, reports, autobans,
                   janitor_runs, allowed_types, inactivity_notices>>

\* the commit of add_message_timestamp
MsgStamp(i) ==
    /\ hs[i].pc = "m_stamp"
    /\ message_timestamps' =
           add_message_timestamp(message_timestamps, hs[i].uid, hs[i].target, hs[i].ts)
    /\ hs' = [hs EXCEPT ![i].pc = "m_count"]
    /\ UNCHANGED <<messages, messages_sent, messages_received, special_code, code_tasks,
                   revoke_history, revoke_answer,
                   now, banned, ban_expires_at, revoke_count, last_revoke, blocks, pending_targets,
                   temp_links, unban_tasks, reports, autobans, janitor_runs, allowed_types, inactivity_notices>>

\* add_message_timestamp followed by get_message_count_in_window, as the rate
\* check does, by a caller that does nothing else and records its calls
RecordAndCheck(i, u, t) ==
    /\ Free(i)
    /\ message_timestamps' = add_message_timestamp(message_timestamps, u, t, now)
    /\ hs' = [hs EXCEPT ![i] =
                 [IdleSlot EXCEPT !.pc = "done", !.kind = "window", !.uid = u,
                                  !.target = t, !.ts = now,
                                  !.count = Len(InWindow(message_timestamps'[<<u, t>>],
                                                         now - WindowSecs)),
                                  !.calls = [hs[i].calls EXCEPT
                                                ![<<u, t>>] = Append(@, now)]]]
    /\ UNCHANGED <<messages, messages_sent, messages_received, special_code, code_tasks,
                   revoke_history, revoke_answer,
                   now, banned, ban_expires_at, revoke_count, last_revoke, blocks, pending_targets,
                   temp_links, unban_tasks, reports, autobans, janitor_runs, allowed_types, inactivity_notices>>

\* get_message_count_in_window; over the limit ban_user is called, which reads the
\* user row and returns at once when the row is already flagged banned
MsgCount(i) ==
    /\ hs[i].pc = "m_count"
    /\ LET count == get_message_count_in_window(hs[i].uid, hs[i].target) IN
       IF OverLimit(count)
       THEN hs' = [hs EXCEPT ![i].pc = "m_ban", ![i].count = count,
                             ![i].ban_write = ~banned[hs[i].uid],
                             ![i].expires = now + BanSecs]
       ELSE hs' = [hs EXCEPT ![i].pc = "m_send", ![i].count = count]
    /\ UNCHANGED <<messages, messages_sent, messages_received, special_code, code_tasks,
                   revoke_history, revoke_answer,
                   now, banned, ban_expires_at, revoke_count, last_revoke, blocks, pending_targets,
                   message_timestamps, temp_links, unban_tasks, reports, autobans,
                   janitor_runs, allowed_types, inactivity_notices>>

\* the commit of ban_user, then the spam report and the reply to the sender
MsgBan(i) ==
    /\ hs[i].pc = "m_ban"
    /\ LET uid == hs[i].uid IN
       /\ IF hs[i].ban_write
          THEN /\ banned' = [banned EXCEPT ![uid] = TRUE]
               /\ ban_expires_at' = [ban_expires_at EXCEPT ![uid] = hs[i].expires]
               /\ pending_targets' = clear_pending_target(pending_targets, uid)
               /\ autobans' = [autobans EXCEPT ![uid] = @ + 1]
          ELSE UNCHANGED <<banned, ban_expires_at, pending_targets, autobans>>
       /\ reports' = [reports EXCEPT ![uid] = @ + 1]
    /\ hs' = Finish(i, hs[i], "quota")
    /\ UNCHANGED <<messages, messages_sent, messages_received, special_code, code_tasks,
                   revoke_history, revoke_answer,
                   now, revoke_count, last_revoke, blocks, message_timestamps, temp_links,
                   unban_tasks, janitor_runs, allowed_types, inactivity_notices>>

\* send_message_to_target returns or raises.  After a delivery
\* store.increment_message_count is called, inside the try block whose last
\* clause catches every Exception.
MsgSend(i, res) ==
    /\ hs[i].pc = "m_send"
    /\ IF res = "ok"
       THEN hs' = Finish(i, hs[i], "delivered")
       ELSE IF res \in {"send_blocked", "send_deactivated", "send_invalid_peer"}
       THEN hs' = [hs EXCEPT ![i].pc = "m_clear", ![i].outcome = res]
       ELSE hs' = Finish(i, hs[i], res)
    /\ UNCHANGED <<messages, messages_sent, messages_received, special_code, code_tasks,
                   revoke_history, revoke_answer,
                   now, banned, ban_expires_at, revoke_count, last_revoke, blocks, pending_targets,
                   message_timestamps, temp_links, unban_tasks, reports, autobans,
                   janitor_runs, allowed_types, inactivity_notices>>

\* the commit of end_connection
MsgClear(i) ==
    /\ hs[i].pc = "m_clear"
    /\ pending_targets' = clear_pending_target(pending_targets, hs[i].uid)
    /\ hs' = Finish(i, hs[i], hs[i].outcome)
    /\ UNCHANGED <<messages, messages_sent, messages_received, special_code, code_tasks,
                   revoke_history, revoke_answer,
                   now, banned, ban_expires_at, revoke_count, last_revoke, blocks, message_timestamps,
                   temp_links, unban_tasks, reports, autobans, janitor_runs, allowed_types, inactivity_notices>>

----------------------------------------------------------------------------
(* handlers/blocking.py: block_cmd, as a reply to a message that shows the   *)
(* nickname nick, and unblock_cmd with an identifier                         *)

BlockBegin(i, uid, nick) ==
    /\ Free(i)
    /\ unban_tasks' = TasksAfterIsBanned(unban_tasks, uid)
    /\ LET target == IF get_message_sender # None THEN get_message_sender
                     ELSE find_user_by_nickname(nick)
           rec == [IdleSlot EXCEPT !.kind = "block", !.uid = uid, !.reply = nick,
                                   !.target = target]
       IN  IF is_banned(uid) THEN hs' = Finish(i, rec, "ignored")
           ELSE IF target = None THEN hs' = Finish(i, rec, "block_no_reply")
           ELSE IF target = uid THEN hs' = Finish(i, rec, "block_self")
           ELSE IF is_blocked_by_user_id(uid, target)
           THEN hs' = Finish(i, rec, "block_already_blocked")
           ELSE IF get_pending_target(uid) = target
           THEN hs' = [hs EXCEPT ![i] = [rec EXCEPT !.pc = "b_clear"]]
           ELSE hs' = [hs EXCEPT ![i] = [rec EXCEPT !.pc = "b_chat"]]
    /\ UNCHANGED <<messages, messages_sent, messages_received, special_code, code_tasks,
                   revoke_history, revoke_answer,
                   now, banned, ban_expires_at, revoke_count, last_revoke, blocks,
                   pending_targets, message_timestamps, temp_links, reports, autobans,
                   janitor_runs, allowed_types, inactivity_notices>>

\* the commit of clear_pending_target; get_chat is called next
BlockClear(i) ==
    /\ hs[i].pc = "b_clear"
    /\ pending_targets' = clear_pending_target(pending_targets, hs[i].uid)
    /\ hs' = [hs EXCEPT ![i].pc = "b_chat"]
    /\ UNCHANGED <<messages, messages_sent, messages_received, special_code, code_tasks,
                   revoke_history, revoke_answer,
                   now, banned, ban_expires_at, revoke_count, last_revoke, blocks,
                   message_timestamps, temp_links, unban_tasks, reports, autobans,
                   janitor_runs, allowed_types, inactivity_notices>>

\* get_chat returns or raises: store.block is called when it returns and when it
\* raises InputUserDeactivated; any other exception leaves the handler
BlockChat(i, res) ==
    /\ hs[i].pc = "b_chat"
    /\ IF res \in {"", "deactivated"}
       THEN /\ hs' = [hs EXCEPT ![i].pc = "b_block"]
            /\ code_tasks' = TasksAfterGetSpecialCode(code_tasks, hs[i].target)
       ELSE /\ hs' = Finish(i, hs[i], "block_error")
            /\ UNCHANGED code_tasks
    /\ UNCHANGED <<messages, messages_sent, messages_received, special_code,
                   revoke_history, revoke_answer,
                   now, banned, ban_expires_at, revoke_count, last_revoke, blocks,
                   pending_targets, message_timestamps, temp_links, unban_tasks,
                   reports, autobans, janitor_runs, allowed_types, inactivity_notices>>

\* the commit of store.block
BlockCommit(i) ==
    /\ hs[i].pc = "b_block"
    /\ blocks' = block(blocks, hs[i].uid, hs[i].target, hs[i].reply)
    /\ hs' = Finish(i, hs[i], "block_success")
    /\ UNCHANGED <<messages, messages_sent, messages_received, special_code, code_tasks,
                   revoke_history, revoke_answer,
                   now, banned, ban_expires_at, revoke_count, last_revoke,
                   pending_targets, message_timestamps, temp_links, unban_tasks,
                   reports, autobans, janitor_runs, allowed_types, inactivity_notices>>

UnblockBegin(i, uid, identifier) ==
    /\ Free(i)
    /\ unban_tasks' = TasksAfterIsBanned(unban_tasks, uid)
    /\ LET rec == [IdleSlot EXCEPT !.kind = "unblock", !.uid = uid,
                                   !.reply = identifier]
       IN  IF is_banned(uid) THEN hs' = Finish(i, rec, "ignored")
           ELSE IF ~is_user_blocked(uid, identifier)
           THEN hs' = Finish(i, rec, "unblock_not_blocked")
           ELSE hs' = [hs EXCEPT ![i] = [rec EXCEPT !.pc = "ub_commit"]]
    /\ UNCHANGED <<messages, messages_sent, messages_received, special_code, code_tasks,
                   revoke_history, revoke_answer,
                   now, banned, ban_expires_at, revoke_count, last_revoke, blocks,
                   pending_targets, message_timestamps, temp_links, reports, autobans,
                   janitor_runs, allowed_types, inactivity_notices>>

\* the commit of store.unblock
UnblockCommit(i) ==
    /\ hs[i].pc = "ub_commit"
    /\ blocks' \in unblock(blocks, hs[i].uid, hs[i].reply)
    /\ hs' = Finish(i, hs[i], "unblock_success")
    /\ UNCHANGED <<messages, messages_sent, messages_received, special_code, code_tasks,
                   revoke_history, revoke_answer,
                   now, banned, ban_expires_at, revoke_count, last_revoke,
                   pending_targets, message_timestamps, temp_links, unban_tasks,
                   reports, autobans, janitor_runs, allowed_types, inactivity_notices>>

----------------------------------------------------------------------------
(* handlers/start.py: revoke_callback with action "confirm", and the store's *)
(* revoke_user                                                               *)

\* (datetime.now(timezone.utc) - last_revoke_dt).days
days_since(u) == (now - last_revoke[u]) \div 86400

\* The mutant asks for more than 7 whole days.
RevokeAllowed_MoreThanSevenDays(u) ==
    \/ last_revoke[u] = NoTime
    \/ days_since(u) > RevokeCooldownDays

\* no last_revoke, or not days_since < 7
RevokeAllowed(u) ==
    \/ last_revoke[u] = NoTime
    \/ days_since(u) >= RevokeCooldownDays

\* revoke_user returns (True, "") or (False, "wait_N"); the callback answers
\* "Revoked successfully!" or "Wait N more days"
RevokeCallback(u) ==
    /\ IF RevokeAllowed(u)
       THEN /\ revoke_history' = revoke_history \cup
                    {[user_id |-> u, old_token |-> PermToken(u),
                      old_nickname |-> Nickname(u), revoked_at |-> now]}
            /\ revoke_count' = [revoke_count EXCEPT ![u] = @ + 1]
            /\ last_revoke' = [last_revoke EXCEPT ![u] = now]
            /\ temp_links' = [t \in TempTokens |->
                                 IF temp_links[t].user_id = u THEN NoLink
                                 ELSE temp_links[t]]
            /\ revoke_answer' = [revoke_answer EXCEPT ![u] = <<"revoke_success", 0>>]
       ELSE /\ revoke_answer' = [revoke_answer EXCEPT ![u] =
                    <<"wait", RevokeCooldownDays - days_since(u)>>]
            /\ UNCHANGED <<revoke_history, revoke_count, last_revoke, temp_links>>
    /\ UNCHANGED <<messages, messages_sent, messages_received, special_code, code_tasks,
                   now, banned, ban_expires_at, blocks, pending_targets,
                   message_timestamps, unban_tasks, hs, reports, autobans, janitor_runs, allowed_types, inactivity_notices>>

\* revoke_callback when several presses are handled concurrently.  revoke_user
\* reads the row and tests the cooldown, then awaits its writes: the INSERT
\* into revoke_history of the token and nickname it read, the UPDATE of the
\* row (revoke_count = revoke_count + 1, last_revoke = the instant of the
\* call), and the DELETE of the temp links of the user.
RevokeBegin(i, u) ==
    /\ Free(i)
    /\ LET rec == [IdleSlot EXCEPT !.kind = "revoke", !.uid = u] IN
       IF RevokeAllowed(u)
       THEN /\ hs' = [hs EXCEPT ![i] = [rec EXCEPT !.pc = "r_write", !.ts = now,
                                                    !.tok = PermToken(u)]]
            /\ revoke_answer' = revoke_answer
       ELSE /\ hs' = Finish(i, rec, "wait")
            /\ revoke_answer' = [revoke_answer EXCEPT ![u] =
                    <<"wait", RevokeCooldownDays - days_since(u)>>]
    /\ UNCHANGED <<messages, messages_sent, messages_received, special_code, code_tasks,
                   revoke_history, now, banned, ban_expires_at, revoke_count,
                   last_revoke, blocks, pending_targets, message_timestamps,
                   temp_links, unban_tasks, reports, autobans, janitor_runs,
                   allowed_types, inactivity_notices>>

\* the commit of the writes of revoke_user, and the answer of the callback
RevokeCommit(i) ==
    /\ hs[i].pc = "r_write"
    /\ LET u == hs[i].uid IN
       /\ revoke_history' = revoke_history \cup
               {[user_id |-> u, old_token |-> hs[i].tok,
                 old_nickname |-> hs[i].tok, revoked_at |-> hs[i].ts]}
       /\ revoke_count' = [revoke_count EXCEPT ![u] = @ + 1]
       /\ last_revoke' = [last_revoke EXCEPT ![u] = hs[i].ts]
       /\ temp_links' = [t \in TempTokens |->
                            IF temp_links[t].user_id = u THEN NoLink
                            ELSE temp_links[t]]
       /\ revoke_answer' = [revoke_answer EXCEPT ![u] = <<"revoke_success", 0>>]
    /\ hs' = Finish(i, hs[i], "revoked")
    /\ UNCHANGED <<messages, messages_sent, messages_received, special_code, code_tasks,
                   now, banned, ban_expires_at, blocks, pending_targets,
                   message_timestamps, unban_tasks, reports, autobans, janitor_runs,
                   allowed_types, inactivity_notices>>

\* the task created by get_user_special_code runs: _set_special_code
SetSpecialCode(u) ==
    /\ u \in code_tasks
    /\ special_code' = [special_code EXCEPT ![u] = generate_special_code(u)]
    /\ code_tasks' = code_tasks \ {u}
    /\ UNCHANGED <<messages, messages_sent, messages_received, revoke_history,
                   revoke_answer, now, banned, ban_expires_at, revoke_count, last_revoke,
                   blocks, pending_targets, message_timestamps, temp_links, unban_tasks,
                   hs, reports, autobans, janitor_runs, allowed_types, inactivity_notices>>

----------------------------------------------------------------------------
(* handlers/lock_types.py: lock_cmd and unlock_cmd with one argument, "-all" *)
(* or a type                                                                 *)

LockCmd(uid, arg) ==
    /\ unban_tasks' = TasksAfterIsBanned(unban_tasks, uid)
    /\ IF is_banned(uid) \/ arg = "text"
       THEN allowed_types' = allowed_types
       ELSE allowed_types' = lock_type(allowed_types, uid, arg)
    /\ UNCHANGED <<messages, messages_sent, messages_received, special_code, code_tasks,
                   revoke_history, revoke_answer,
                   now, banned, ban_expires_at, revoke_count, last_revoke, blocks,
                   pending_targets, message_timestamps, temp_links, hs, reports,
                   autobans, janitor_runs, inactivity_notices>>

UnlockCmd(uid, arg) ==
    /\ unban_tasks' = TasksAfterIsBanned(unban_tasks, uid)
    /\ IF is_banned(uid) \/ arg = "text"
       THEN allowed_types' = allowed_types
       ELSE allowed_types' = unlock_type(allowed_types, uid, arg)
    /\ UNCHANGED <<messages, messages_sent, messages_received, special_code, code_tasks,
                   revoke_history, revoke_answer,
                   now, banned, ban_expires_at, revoke_count, last_revoke, blocks,
                   pending_targets, message_timestamps, temp_links, hs, reports,
                   autobans, janitor_runs, inactivity_notices>>

----------------------------------------------------------------------------
(* handlers/moderation.py: ban_cmd and unban_cmd, sent by the owner *)

BanCmd(target) ==
    /\ ~is_banned(target)
    /\ unban_tasks' = TasksAfterIsBanned(unban_tasks, target)
    /\ IF banned[target]
       THEN UNCHANGED <<banned, ban_expires_at, pending_targets>>
       ELSE /\ banned' = [banned EXCEPT ![target] = TRUE]
            /\ ban_expires_at' = [ban_expires_at EXCEPT ![target] = NoTime]
            /\ pending_targets' = clear_pending_target(pending_targets, target)
    /\ UNCHANGED <<messages, messages_sent, messages_received, special_code, code_tasks,
                   revoke_history, revoke_answer,
                   now, revoke_count, last_revoke, blocks, message_timestamps,
                   temp_links, hs, reports, autobans, janitor_runs, allowed_types, inactivity_notices>>

UnbanCmd(target) ==
    /\ is_banned(target)
    /\ banned' = [banned EXCEPT ![target] = FALSE]
    /\ ban_expires_at' = [ban_expires_at EXCEPT ![target] = NoTime]
    /\ UNCHANGED <<messages, messages_sent, messages_received, special_code, code_tasks,
                   revoke_history, revoke_answer,
                   now, revoke_count, last_revoke, blocks, pending_targets,
                   message_timestamps, temp_links, unban_tasks, hs, reports, autobans,
                   janitor_runs, allowed_types, inactivity_notices>>

\* SQLiteStore.store_message, called on the store: no handler calls it
StoreMessage(bot_msg_id, sender_id, receiver_id) ==
    /\ messages' = store_message(messages, bot_msg_id, sender_id, receiver_id, now)
    /\ UNCHANGED <<messages_sent, messages_received, special_code, code_tasks,
                   revoke_history, revoke_answer,
                   now, banned, ban_expires_at, revoke_count, last_revoke, blocks,
                   pending_targets, message_timestamps, temp_links, unban_tasks, hs,
                   reports, autobans, janitor_runs, allowed_types, inactivity_notices>>

\* SQLiteStore.ban_user with a duration, as the rate check calls it
\* (messaging.py: ban_user(uid, timedelta(days=1))), without the messages that
\* lead to the call
BanUser(u, duration) ==
    /\ IF banned[u]
       THEN UNCHANGED <<banned, ban_expires_at, pending_targets>>
       ELSE /\ banned' = [banned EXCEPT ![u] = TRUE]
            /\ ban_expires_at' = [ban_expires_at EXCEPT ![u] = now + duration]
            /\ pending_targets' = clear_pending_target(pending_targets, u)
    /\ UNCHANGED <<messages, messages_sent, messages_received, special_code, code_tasks,
                   revoke_history, revoke_answer,
                   now, revoke_count, last_revoke, blocks, message_timestamps,
                   temp_links, unban_tasks, hs, reports, autobans, janitor_runs,
                   allowed_types, inactivity_notices>>

\* SQLiteStore.ban_user with a duration, awaited by a caller that keeps the
\* value it returns: False when the row is flagged banned, True after the write
BanUserCall(i, u, duration) ==
    /\ Free(i)
    /\ hs' = Finish(i, [IdleSlot EXCEPT !.kind = "ban", !.uid = u],
                    IF banned[u] THEN "false" ELSE "true")
    /\ IF banned[u]
       THEN UNCHANGED <<banned, ban_expires_at, pending_targets>>
       ELSE /\ banned' = [banned EXCEPT ![u] = TRUE]
            /\ ban_expires_at' = [ban_expires_at EXCEPT ![u] = now + duration]
            /\ pending_targets' = clear_pending_target(pending_targets, u)
    /\ UNCHANGED <<messages, messages_sent, messages_received, special_code, code_tasks,
                   revoke_history, revoke_answer,
                   now, revoke_count, last_revoke, blocks, message_timestamps,
                   temp_links, unban_tasks, reports, autobans, janitor_runs,
                   allowed_types, inactivity_notices>>

\* a task created by is_banned runs: unban_user, an UPDATE of the row WHERE
\* banned = 1
UnbanTask(u) ==
    /\ unban_tasks[u] > 0
    /\ unban_tasks' = [unban_tasks EXCEPT ![u] = @ - 1]
    /\ banned' = [banned EXCEPT ![u] = FALSE]
    /\ ban_expires_at' = [ban_expires_at EXCEPT ![u] = IF banned[u] THEN NoTime ELSE @]
    /\ UNCHANGED <<messages, messages_sent, messages_received, special_code, code_tasks,
                   revoke_history, revoke_answer,
                   now, revoke_count, last_revoke, blocks, pending_targets,
                   message_timestamps, temp_links, hs, reports, autobans, janitor_runs,
                   allowed_types, inactivity_notices>>

----------------------------------------------------------------------------
(* SQLiteStore.cleanup_expired_pending_targets and cleanup_old_messages,     *)
(* which no handler and no scheduler job calls, applied on the store         *)

\* DELETE FROM pending_targets WHERE sender_id IN (the expired senders); the
\* pairs are returned to the caller
cleanup_expired_pending_targets(pt) ==
    [u \in Users |-> IF u \in get_expired_pending_targets THEN NoPending ELSE pt[u]]

CleanupExpiredPendingTargets ==
    /\ get_expired_pending_targets # {}
    /\ pending_targets' = cleanup_expired_pending_targets(pending_targets)
    /\ UNCHANGED <<messages, messages_sent, messages_received, special_code, code_tasks,
                   revoke_history, revoke_answer,
                   now, banned, ban_expires_at, revoke_count, last_revoke, blocks,
                   message_timestamps, temp_links, unban_tasks, hs, reports, autobans,
                   janitor_runs, allowed_types, inactivity_notices>>

\* DELETE FROM messages WHERE timestamp < cutoff, the cutoff 24 hours back
cleanup_old_messages(msgs) == {m \in msgs : ~(m.timestamp < now - RetentionSecs)}

CleanupOldMessages ==
    /\ messages' = cleanup_old_messages(messages)
    /\ messages' # messages
    /\ UNCHANGED <<messages_sent, messages_received, special_code, code_tasks,
                   revoke_history, revoke_answer,
                   now, banned, ban_expires_at, revoke_count, last_revoke, blocks,
                   pending_targets, message_timestamps, temp_links, unban_tasks, hs,
                   reports, autobans, janitor_runs, allowed_types, inactivity_notices>>

----------------------------------------------------------------------------
(* scheduler.py: the job check_inactive_users, run once a minute.  Its first *)
(* statement calls store.get_inactive_users; the exception ends the run.     *)

JanitorSweep ==
    /\ janitor_runs < now \div SweepSecs
    /\ Raises("get_inactive_users")
    /\ janitor_runs' = janitor_runs + 1
    /\ UNCHANGED <<messages, messages_sent, messages_received, special_code, code_tasks,
                   revoke_history, revoke_answer,
                   now, banned, ban_expires_at, revoke_count, last_revoke, blocks,
                   pending_targets, message_timestamps, temp_links, unban_tasks, hs,
                   reports, autobans, allowed_types, inactivity_notices>>

----------------------------------------------------------------------------
(* The clock *)

Advance(d, horizon) ==
    /\ now + d <= horizon
    /\ now' = now + d
    /\ UNCHANGED <<messages, messages_sent, messages_received, special_code, code_tasks,
                   revoke_history, revoke_answer,
                   banned, ban_expires_at, revoke_count, last_revoke, blocks,
                   pending_targets, message_timestamps, temp_links, unban_tasks, hs,
                   reports, autobans, janitor_runs, allowed_types, inactivity_notices>>

----------------------------------------------------------------------------
(* The state of a running bot with registered users and an otherwise empty *)
(* database.                                                                *)

Init ==
    /\ now = 0
    /\ banned = [u \in Users |-> FALSE]
    /\ ban_expires_at = [u \in Users |-> NoTime]
    /\ revoke_count = [u \in Users |-> 0]
    /\ last_revoke = [u \in Users |-> NoTime]
    /\ blocks = {}
    /\ pending_targets = [u \in Users |-> NoPending]
    /\ message_timestamps = [p \in Users \X Users |-> <<>>]
    /\ temp_links = [t \in TempTokens |-> NoLink]
    /\ unban_tasks = [u \in Users |-> 0]
    /\ hs = [i \in Slots |-> IdleSlot]
    /\ reports = [u \in Users |-> 0]
    /\ autobans = [u \in Users |-> 0]
    /\ janitor_runs = 0
    /\ messages = {}
    /\ messages_sent = [u \in Users |-> 0]
    /\ messages_received = [u \in Users |-> 0]
    /\ special_code = [u \in Users |-> generate_special_code(u)]
    /\ code_tasks = {}
    /\ revoke_history = {}
    /\ revoke_answer = [u \in Users |-> NoAnswer]
    /\ allowed_types = [u \in Users |-> DEFAULT_ALLOWED]
    /\ inactivity_notices = [u \in Users |-> 0]

----------------------------------------------------------------------------
(* Temp links: creation and activation by /start and by the web page *)

LinkOwners == {"u1"}
LinkVisitors == {"u2", "u3"}
LinkLimits == {NoLimit} \cup (1..MaxUses)

\* activations are started while the use counter is within the model's range
Usable(t) == temp_links[t].current_uses <= MaxUses

NextLink ==
    \/ \E o \in LinkOwners, t \in TempTokens, m \in LinkLimits : CreateTempLink(o, t, 0, m)
    \/ \E i \in Slots, u \in LinkVisitors, t \in TempTokens :
          Usable(t) /\ StartBegin(i, u, t)
    \/ \E i \in Slots : StartUse(i)
    \/ \E i \in Slots, r \in ChatResults : StartChat(i, r)
    \/ \E i \in Slots : StartSet(i)
    \/ \E i \in Slots, t \in TempTokens : Usable(t) /\ WebBegin(i, t)
    \/ \E i \in Slots : WebUse(i)

SpecLink == Init /\ [][NextLink]_vars

----------------------------------------------------------------------------
(* One sender whose messages are handled one after the other *)

RateStep == WindowSecs

NextRate ==
    \/ StartBegin(1, "u1", PermToken("u2"))
    \/ \E r \in ChatResults : StartChat(1, r)
    \/ StartSet(1)
    \/ MsgBegin(1, "u1", None)
    \/ MsgRoute(1)
    \/ \E r \in ChatResults : MsgChat(1, r)
    \/ MsgStamp(1)
    \/ MsgCount(1)
    \/ MsgBan(1)
    \/ \E r \in SendResults : MsgSend(1, r)
    \/ MsgClear(1)
    \/ Advance(RateStep, MaxTicks * RateStep)

SpecRate == Init /\ [][NextRate]_vars

----------------------------------------------------------------------------
(* The message window on its own: record-and-check calls for two pairs, with *)
(* clock steps of half a window and of one second more                       *)

HalfWindow == WindowSecs \div 2
WindowHorizon == MaxTicks * (WindowSecs + 1)
CallsMade == Len(hs[1].calls[<<"u1", "u2">>]) + Len(hs[1].calls[<<"u2", "u1">>])

NextWindow ==
    \/ \E p \in WindowPairs : CallsMade < MaxCalls /\ RecordAndCheck(1, p[1], p[2])
    \/ \E d \in {HalfWindow, HalfWindow + 1} : Advance(d, WindowHorizon)

SpecWindow == Init /\ [][NextWindow]_vars

----------------------------------------------------------------------------
(* One sender whose messages are handled concurrently, within one reading of *)
(* the clock                                                                 *)

NextBurst ==
    \/ \E i \in Slots : StartBegin(i, "u1", PermToken("u2"))
    \/ \E i \in Slots, r \in ChatResults : StartChat(i, r)
    \/ \E i \in Slots : StartSet(i)
    \/ \E i \in Slots : MsgBegin(i, "u1", None)
    \/ \E i \in Slots : MsgRoute(i)
    \/ \E i \in Slots, r \in ChatResults : MsgChat(i, r)
    \/ \E i \in Slots : MsgStamp(i)
    \/ \E i \in Slots : MsgCount(i)
    \/ \E i \in Slots : MsgBan(i)
    \/ \E i \in Slots, r \in SendResults : MsgSend(i, r)
    \/ \E i \in Slots : MsgClear(i)

SpecBurst == Init /\ [][NextBurst]_vars

----------------------------------------------------------------------------
(* A few messages of one sender to one target, handled concurrently within   *)
(* one window: the clock advances by half a window, up to one window, and    *)
(* Telegram answers every call                                               *)

BurstRoom == Len(message_timestamps[<<"u1", "u2">>]) <= MaxMsgs

NotConnected == get_pending_target("u1") = None

NextPair ==
    \/ \E i \in Slots : NotConnected /\ StartBegin(i, "u1", PermToken("u2"))
    \/ \E i \in Slots : StartChat(i, "")
    \/ \E i \in Slots : StartSet(i)
    \/ \E i \in Slots : BurstRoom /\ MsgBegin(i, "u1", None)
    \/ \E i \in Slots : MsgRoute(i)
    \/ \E i \in Slots : MsgChat(i, "")
    \/ \E i \in Slots : MsgStamp(i)
    \/ \E i \in Slots : MsgCount(i)
    \/ \E i \in Slots : MsgSend(i, "ok")
    \/ Advance(HalfWindow, WindowSecs)

SpecPair == Init /\ [][NextPair]_vars

----------------------------------------------------------------------------
(* One sender, the clock and the scheduler.  The scheduler job and the clock *)
(* are fair: the job is run every minute.  The sender stays far below the    *)
(* message limit.                                                            *)

JanitorStep == PendingTimeoutSecs \div 2
JanitorHorizon == MaxTicks * PendingTimeoutSecs

FewStamps == get_message_count_in_window("u1", "u2") < MaxMsgs

NextJanitor ==
    \/ StartBegin(1, "u1", PermToken("u2"))
    \/ \E r \in ChatResults : StartChat(1, r)
    \/ StartSet(1)
    \/ FewStamps /\ MsgBegin(1, "u1", None)
    \/ MsgRoute(1)
    \/ \E r \in ChatResults : MsgChat(1, r)
    \/ MsgStamp(1)
    \/ MsgCount(1)
    \/ \E r \in SendResults : MsgSend(1, r)
    \/ MsgClear(1)
    \/ JanitorSweep
    \/ Advance(JanitorStep, JanitorHorizon)

SpecJanitor ==
    /\ Init
    /\ [][NextJanitor]_vars
    /\ WF_vars(JanitorSweep)
    /\ WF_vars(Advance(JanitorStep, JanitorHorizon))

----------------------------------------------------------------------------
(* Two users: u1 writes to u2 and rotates its identity, u2 blocks and        *)
(* unblocks u1, the owner bans and unbans u2.  The handlers run one at a     *)
(* time; the rotations, the bans and the clock interleave with their steps.  *)
(* A clock step is the cooldown between two rotations.                       *)

RevokeStep == RevokeCooldownDays * 86400

Peer(u) == IF u = "u1" THEN "u2" ELSE "u1"
NicknamesOf(u) == {<<u, g>> : g \in 0..revoke_count[u]}

NextBlock ==
    \/ \E u \in {"u1", "u2"} : StartBegin(1, u, PermToken(Peer(u)))
    \/ \E r \in ChatResults : StartChat(1, r)
    \/ StartSet(1)
    \/ \E reply \in {None, Nickname("u2")} : FewStamps /\ MsgBegin(1, "u1", reply)
    \/ MsgRoute(1)
    \/ \E r \in ChatResults : MsgChat(1, r)
    \/ MsgStamp(1)
    \/ MsgCount(1)
    \/ \E r \in SendResults : MsgSend(1, r)
    \/ MsgClear(1)
    \/ \E n \in NicknamesOf("u1") : BlockBegin(1, "u2", n)
    \/ BlockClear(1)
    \/ \E r \in ChatResults : BlockChat(1, r)
    \/ BlockCommit(1)
    \/ \E id \in NicknamesOf("u1") \cup {generate_special_code("u1")} :
          UnblockBegin(1, "u2", id)
    \/ UnblockCommit(1)
    \/ revoke_count["u1"] < MaxRevokes /\ RevokeAllowed("u1") /\ RevokeCallback("u1")
    \/ BanCmd("u2")
    \/ UnbanCmd("u2")
    \/ Advance(RevokeStep, MaxTicks * RevokeStep)

SpecBlock == Init /\ [][NextBlock]_vars

----------------------------------------------------------------------------
(* Two users who do the same things to each other: each opens the other's    *)
(* link, writes, replies to messages that show a nickname of the other or    *)
(* its own, blocks and unblocks the other, and rotates its identity.         *)
(* The owner bans and unbans them.  The handlers run one at a time, the bans  *)
(* interleave with their steps, and the clock stands still.                  *)

RouteUsers == {"u1", "u2"}
TheLink == <<"t1", 0>>

\* a message is begun while its sender has stamped few messages
FewStampsOf(u) == \A t \in Users : Len(message_timestamps[<<u, t>>]) < MaxMsgs

NextMutual ==
    \/ \E u \in RouteUsers : StartBegin(1, u, PermToken(Peer(u)))
    \/ \E r \in ChatResults : StartChat(1, r)
    \/ StartSet(1)
    \/ \E u \in RouteUsers : FewStampsOf(u) /\ MsgBegin(1, u, None)
    \/ \E u \in RouteUsers : \E reply \in NicknamesOf(Peer(u)) \cup {Nickname(u)} :
          FewStampsOf(u) /\ MsgBegin(1, u, reply)
    \/ MsgRoute(1)
    \/ \E r \in ChatResults : MsgChat(1, r)
    \/ MsgStamp(1)
    \/ MsgCount(1)
    \/ \E r \in SendResults : MsgSend(1, r)
    \/ MsgClear(1)
    \/ \E u \in RouteUsers : BlockBegin(1, u, Nickname(Peer(u)))
    \/ BlockClear(1)
    \/ \E r \in ChatResults : BlockChat(1, r)
    \/ BlockCommit(1)
    \/ \E u \in RouteUsers : UnblockBegin(1, u, generate_special_code(Peer(u)))
    \/ UnblockCommit(1)
    \/ \E u \in RouteUsers : BanCmd(u)
    \/ \E u \in RouteUsers : UnbanCmd(u)
    \/ \E u \in RouteUsers :
          revoke_count[u] < MaxRevokes /\ RevokeAllowed(u) /\ RevokeCallback(u)

SpecMutual == Init /\ [][NextMutual]_vars

----------------------------------------------------------------------------
(* The same two users on a database in which the row of u1 in table users    *)
(* carries an empty special_code, the case that get_user_special_code        *)
(* provides for.                                                             *)

InitLegacy ==
    /\ now = 0
    /\ banned = [u \in Users |-> FALSE]
    /\ ban_expires_at = [u \in Users |-> NoTime]
    /\ revoke_count = [u \in Users |-> 0]
    /\ last_revoke = [u \in Users |-> NoTime]
    /\ blocks = {}
    /\ pending_targets = [u \in Users |-> NoPending]
    /\ message_timestamps = [p \in Users \X Users |-> <<>>]
    /\ temp_links = [t \in TempTokens |-> NoLink]
    /\ unban_tasks = [u \in Users |-> 0]
    /\ hs = [i \in Slots |-> IdleSlot]
    /\ reports = [u \in Users |-> 0]
    /\ autobans = [u \in Users |-> 0]
    /\ janitor_runs = 0
    /\ messages = {}
    /\ messages_sent = [u \in Users |-> 0]
    /\ messages_received = [u \in Users |-> 0]
    /\ code_tasks = {}
    /\ revoke_history = {}
    /\ revoke_answer = [u \in Users |-> NoAnswer]
    /\ allowed_types = [u \in Users |-> DEFAULT_ALLOWED]
    /\ inactivity_notices = [u \in Users |-> 0]
    /\ special_code = [u \in Users |-> IF u = "u1" THEN NoCode
                                       ELSE generate_special_code(u)]

NextIdentity ==
    \/ NextMutual
    \/ SetSpecialCode("u1")

SpecIdentity == InitLegacy /\ [][NextIdentity]_vars

----------------------------------------------------------------------------
(* Rotations on their own: u1 presses "confirm" at any time, u1 and u2       *)
(* create temp links; the clock advances by half a day, to some half days    *)
(* past one cooldown.                                                        *)

HalfDay == 86400 \div 2
RevokeHorizon == RevokeStep + MaxTicks * HalfDay

NextRevoke ==
    \/ revoke_count["u1"] < MaxRevokes /\ RevokeCallback("u1")
    \/ \E o \in RouteUsers : CreateTempLink(o, TheLink, 0, NoLimit)
    \/ Advance(HalfDay, RevokeHorizon)

SpecRevoke == Init /\ [][NextRevoke]_vars

----------------------------------------------------------------------------
(* One user who turns towards itself: u1 opens its own link, the link of u2  *)
(* and temp links of either, writes, replies to messages that show one of    *)
(* its own nicknames or the nickname of u2, and rotates its identity.  The   *)
(* clock stands still.                                                       *)

NextSelf ==
    \/ \E v \in RouteUsers : StartBegin(1, "u1", PermToken(v))
    \/ \E o \in RouteUsers, m \in LinkLimits : CreateTempLink(o, TheLink, 0, m)
    \/ Usable(TheLink) /\ StartBegin(1, "u1", TheLink)
    \/ StartUse(1)
    \/ \E r \in ChatResults : StartChat(1, r)
    \/ StartSet(1)
    \/ FewStampsOf("u1") /\ MsgBegin(1, "u1", None)
    \/ \E reply \in NicknamesOf("u1") \cup {Nickname("u2")} :
          FewStampsOf("u1") /\ MsgBegin(1, "u1", reply)
    \/ MsgRoute(1)
    \/ \E r \in ChatResults : MsgChat(1, r)
    \/ MsgStamp(1)
    \/ MsgCount(1)
    \/ \E r \in SendResults : MsgSend(1, r)
    \/ MsgClear(1)
    \/ revoke_count["u1"] < MaxRevokes /\ RevokeAllowed("u1") /\ RevokeCallback("u1")

SpecSelf == Init /\ [][NextSelf]_vars

----------------------------------------------------------------------------
(* The life of one temp link of u1: created with or without an expiry of one *)
(* day and with or without a limit of uses, opened by u2 with /start and     *)
(* through the web page, listed by its owner, revoked, deleted and created   *)
(* again, while the clock advances by half a day up to two days.             *)

ExpiryDays == {0, 1}
ExpiryHorizon == MaxTicks * 86400

NextExpiry ==
    \/ \E d \in ExpiryDays, m \in LinkLimits : CreateTempLink("u1", TheLink, d, m)
    \/ Usable(TheLink) /\ StartBegin(1, "u2", TheLink)
    \/ StartUse(1)
    \/ StartChat(1, "")
    \/ StartSet(1)
    \/ Usable(TheLink) /\ WebBegin(1, TheLink)
    \/ WebUse(1)
    \/ \E u \in RouteUsers : ActiveLinksCmd(1, u)
    \/ \E u \in RouteUsers : RevokeTempLink(TheLink, u)
    \/ DeleteTempLink("u1", TheLink)
    \/ Advance(HalfDay, ExpiryHorizon)

SpecExpiry == Init /\ [][NextExpiry]_vars

----------------------------------------------------------------------------
(* Bans of u1 and u2: for one day (the ban of the rate check) and without a  *)
(* duration (/ban), by a caller that keeps what ban_user returns, /unban,    *)
(* /activelinks as a handler that begins with                                *)
(* is_banned, and the unban tasks that is_banned creates.  The clock         *)
(* advances by half a day, past the expiry of a ban made on the first day.   *)

BanHorizon == BanSecs + MaxTicks * HalfDay

\* a handler that calls is_banned(u) is begun while few unban tasks of u wait
FewTasks(u) == unban_tasks[u] < MaxTasks

NextBan ==
    \/ \E u \in RouteUsers : BanUser(u, BanSecs)
    \/ \E u \in RouteUsers : BanUserCall(1, u, BanSecs)
    \/ \E u \in RouteUsers : FewTasks(u) /\ BanCmd(u)
    \/ \E u \in RouteUsers : UnbanCmd(u)
    \/ \E u \in RouteUsers : FewTasks(u) /\ ActiveLinksCmd(1, u)
    \/ \E u \in RouteUsers : UnbanTask(u)
    \/ Advance(HalfDay, BanHorizon)

SpecBan == Init /\ [][NextBan]_vars

----------------------------------------------------------------------------
(* u1 connects to u2 and sends messages that carry one or two tags, in       *)
(* either order, while u2 locks and unlocks types.  Telegram answers every   *)
(* call and the clock stands still.                                          *)

MessageTags ==
    {<<"text">>, <<"photo">>, <<"poll">>, <<"text", "url">>, <<"url", "text">>,
     <<"photo", "url">>, <<"url", "photo">>}

NextTypes ==
    \/ StartBegin(1, "u1", PermToken("u2"))
    \/ StartChat(1, "")
    \/ StartSet(1)
    \/ \E types \in MessageTags : FewStampsOf("u1") /\ MsgBeginTyped(1, "u1", None, types)
    \/ MsgRoute(1)
    \/ MsgChat(1, "")
    \/ MsgStamp(1)
    \/ MsgCount(1)
    \/ MsgSend(1, "ok")
    \/ \E arg \in VALID_TYPES : LockCmd("u2", arg)
    \/ \E arg \in VALID_TYPES : UnlockCmd("u2", arg)

SpecTypes == Init /\ [][NextTypes]_vars

----------------------------------------------------------------------------
(* Two senders and their pending targets: u1 opens the link of u2 and, when  *)
(* it is connected to u2, the link of u3; u2 opens the links of u1 and u3.   *)
(* One /start is handled at a time, Telegram answers every call, and the     *)
(* clock advances by half a timeout.                                         *)

NextPending ==
    \/ StartBegin(1, "u1", PermToken("u2"))
    \/ get_pending_target("u1") = "u2" /\ StartBegin(1, "u1", PermToken("u3"))
    \/ \E t \in {"u1", "u3"} : StartBegin(1, "u2", PermToken(t))
    \/ StartChat(1, "")
    \/ StartSet(1)
    \/ Advance(JanitorStep, JanitorHorizon)

SpecPending == Init /\ [][NextPending]_vars

----------------------------------------------------------------------------
(* Table messages under calls of store_message, for a few identifiers and    *)
(* every pair of different users                                             *)

MsgIds == 1..MaxIds

NextRoutes ==
    \E id \in MsgIds, s \in Users, r \in Users : s # r /\ StoreMessage(id, s, r)

SpecRoutes == Init /\ [][NextRoutes]_vars

----------------------------------------------------------------------------
(* Block lists of u1 and u2: each blocks the other users by replying to a    *)
(* message that shows their nickname, and unblocks by a short code, by a     *)
(* nickname or by a piece of text that every nickname contains.  Two         *)
(* handlers run concurrently; Telegram answers every call.                   *)

Identifiers ==
    {generate_special_code(t) : t \in Users} \cup {Nickname(t) : t \in Users}
       \cup {AnyPart}

NextUnblock ==
    \/ \E i \in Slots, u \in RouteUsers, t \in Users : BlockBegin(i, u, Nickname(t))
    \/ \E i \in Slots : BlockChat(i, "")
    \/ \E i \in Slots : BlockCommit(i)
    \/ \E i \in Slots, u \in RouteUsers, id \in Identifiers : UnblockBegin(i, u, id)
    \/ \E i \in Slots : UnblockCommit(i)

SpecUnblock == Init /\ [][NextUnblock]_vars

----------------------------------------------------------------------------
(* One sender with a pending target who replies: u1 opens the link of u2 or  *)
(* of u3 and writes plain messages and replies to messages that show its     *)
(* own nickname, the nickname of u2 or of u3, or a nickname that nobody      *)
(* holds.  One handler runs at a time and the clock stands still.            *)

NobodysNickname == <<"u3", MaxRevokes + 1>>

ReplyTexts == {Nickname(u) : u \in Users} \cup {NobodysNickname}

NextReply ==
    \/ \E v \in {"u2", "u3"} : StartBegin(1, "u1", PermToken(v))
    \/ StartChat(1, "")
    \/ StartSet(1)
    \/ FewStampsOf("u1") /\ MsgBegin(1, "u1", None)
    \/ \E reply \in ReplyTexts : FewStampsOf("u1") /\ MsgBegin(1, "u1", reply)
    \/ MsgRoute(1)
    \/ \E r \in ChatResults : MsgChat(1, r)
    \/ MsgStamp(1)
    \/ MsgCount(1)
    \/ \E r \in SendResults : MsgSend(1, r)
    \/ MsgClear(1)

SpecReply == Init /\ [][NextReply]_vars

----------------------------------------------------------------------------
(* Pending targets that grow old: u1 and u2 open each other's link and send  *)
(* nothing, the clock advances by half a timeout, the scheduler job runs     *)
(* once a minute, and cleanup_expired_pending_targets is applied on the      *)
(* store.                                                                    *)

NextSweep ==
    \/ \E u \in RouteUsers : StartBegin(1, u, PermToken(Peer(u)))
    \/ StartChat(1, "")
    \/ StartSet(1)
    \/ JanitorSweep
    \/ CleanupExpiredPendingTargets
    \/ Advance(JanitorStep, JanitorHorizon)

SpecSweep == Init /\ [][NextSweep]_vars

----------------------------------------------------------------------------
(* Message routes that grow old: store_message records a route between u1    *)
(* and u2 under one identifier, the clock advances by half a day to two      *)
(* days, the scheduler runs its one job, check_inactive_users, once a        *)
(* minute, and cleanup_old_messages is applied on the store.  The clock and  *)
(* the job are fair; nothing schedules cleanup_old_messages.                 *)

RetentionHorizon == RetentionSecs + MaxTicks * HalfDay

NextRetention ==
    \/ \E s \in RouteUsers : StoreMessage(1, s, Peer(s))
    \/ JanitorSweep
    \/ CleanupOldMessages
    \/ Advance(HalfDay, RetentionHorizon)

SpecRetention ==
    /\ Init
    /\ [][NextRetention]_vars
    /\ WF_vars(JanitorSweep)
    /\ WF_vars(Advance(HalfDay, RetentionHorizon))

----------------------------------------------------------------------------
(* Rotations whose handlers overlap: u1 presses "confirm" while another      *)
(* press of u1 is being handled, u1 creates a temp link, and the clock       *)
(* advances by half a day to some half days past one cooldown.               *)

\* the presses of u that are being handled and have passed the cooldown test
RevokesInFlight(u) ==
    Cardinality({i \in Slots : hs[i].pc = "r_write" /\ hs[i].uid = u})

NextRotate ==
    \/ \E i \in Slots :
          revoke_count["u1"] + RevokesInFlight("u1") < MaxRevokes /\ RevokeBegin(i, "u1")
    \/ \E i \in Slots : RevokeCommit(i)
    \/ CreateTempLink("u1", TheLink, 0, NoLimit)
    \/ Advance(HalfDay, RevokeHorizon)

SpecRotate == Init /\ [][NextRotate]_vars

----------------------------------------------------------------------------
(* Activations that do not connect: u1 opens a temp link of its own or of    *)
(* u2 and the permanent link of u2, while the owner bans and unbans u2, u2   *)
(* blocks and unblocks u1, the links are deleted by their issuers, and       *)
(* Telegram answers get_chat in every way.  One handler runs at a time and   *)
(* the clock stands still.                                                   *)

NextConsume ==
    \/ \E o \in RouteUsers, m \in LinkLimits : CreateTempLink(o, TheLink, 0, m)
    \/ Usable(TheLink) /\ StartBegin(1, "u1", TheLink)
    \/ StartBegin(1, "u1", PermToken("u2"))
    \/ StartUse(1)
    \/ \E r \in ChatResults : StartChat(1, r)
    \/ StartSet(1)
    \/ BanCmd("u2")
    \/ UnbanCmd("u2")
    \/ BlockBegin(1, "u2", Nickname("u1"))
    \/ BlockChat(1, "")
    \/ BlockCommit(1)
    \/ UnblockBegin(1, "u2", generate_special_code("u1"))
    \/ UnblockCommit(1)
    \/ \E o \in RouteUsers : DeleteTempLink(o, TheLink)

SpecConsume == Init /\ [][NextConsume]_vars

----------------------------------------------------------------------------
(* A sender whose /start and /block are handled concurrently: u1 opens the   *)
(* link of u2, and blocks and unblocks u2 by replying to a message that      *)
(* shows the nickname of u2.  Telegram answers every call and the clock      *)
(* stands still.                                                             *)

NextBlockRace ==
    \/ \E i \in Slots : StartBegin(i, "u1", PermToken("u2"))
    \/ \E i \in Slots : StartChat(i, "")
    \/ \E i \in Slots : StartSet(i)
    \/ \E i \in Slots : BlockBegin(i, "u1", Nickname("u2"))
    \/ \E i \in Slots : BlockClear(i)
    \/ \E i \in Slots : BlockChat(i, "")
    \/ \E i \in Slots : BlockCommit(i)
    \/ \E i \in Slots : UnblockBegin(i, "u1", generate_special_code("u2"))
    \/ \E i \in Slots : UnblockCommit(i)

SpecBlockRace == Init /\ [][NextBlockRace]_vars

----------------------------------------------------------------------------
(* Properties of temp links, checked under SpecLink *)

Activated(i, t) ==
    /\ hs[i].kind = "start"
    /\ hs[i].pc = "done"
    /\ hs[i].outcome = "connected"
    /\ hs[i].tok = t
    /\ hs[i].consumed

\* C1: of two concurrent activations of a temp link with max_uses = 1 and
\* current_uses = 0 exactly one succeeds, so the two never both end connected
\* through the link.
C1_ExactlyOneActivationSucceeds ==
    \A t \in TempTokens :
        (temp_links[t].exists /\ temp_links[t].max_uses = 1)
            => ~(\E i, j \in Slots : i # j /\ Activated(i, t) /\ Activated(j, t))

\* C2: a temp link with a use limit never has current_uses above max_uses,
\* whatever the interleaving of /start handlers and web send requests.
C2_UsesWithinLimit ==
    \A t \in TempTokens :
        (temp_links[t].exists /\ temp_links[t].max_uses # NoLimit)
            => temp_links[t].current_uses <= temp_links[t].max_uses

----------------------------------------------------------------------------
(* Properties of the rate limiter, checked under SpecRate *)

\* the timestamps of the pair that lie in the 60 seconds before now
StampsInWindow(u, t) ==
    Cardinality({k \in DOMAIN message_timestamps[<<u, t>>] :
                    now - message_timestamps[<<u, t>>][k] <= 60})

RejectedForQuota(i) ==
    /\ hs[i].kind = "msg"
    /\ \/ hs[i].pc = "m_ban"
       \/ hs[i].pc = "done" /\ hs[i].outcome = "quota"

\* C3: a message is rejected for quota only when it is at least the 61st of
\* the sender to the target inside 60 seconds, so none of the first 60 is; the
\* 61st is never sent on; and once the rejection is complete the sender is
\* banned with an expiry 24 hours after the rejection.
C3_SixtyFirstMessageBans ==
    \A i \in Slots :
        /\ RejectedForQuota(i) => hs[i].count >= 61
        /\ (hs[i].kind = "msg" /\ hs[i].pc = "m_send") => hs[i].count <= 60
        /\ (hs[i].kind = "msg" /\ hs[i].pc = "m_send")
               => StampsInWindow(hs[i].uid, hs[i].target) <= 60
        /\ (hs[i].kind = "msg" /\ hs[i].pc = "done" /\ hs[i].outcome = "quota")
               => /\ banned[hs[i].uid]
                  /\ ban_expires_at[hs[i].uid] >= hs[i].ts + 24 * 3600
                  /\ ban_expires_at[hs[i].uid] <= now + 24 * 3600

C3_Witness ==
    \E i \in Slots :
        /\ hs[i].kind = "msg" /\ hs[i].pc = "done" /\ hs[i].outcome = "quota"
        /\ hs[i].count = 61
        /\ banned[hs[i].uid]
        /\ pending_targets[hs[i].uid] = NoPending

----------------------------------------------------------------------------
(* Properties of the message handler, checked under SpecBurst *)

\* C4: every auto-suspension sends exactly one report to the moderators, also
\* when several messages of the sender are handled concurrently: the reports
\* about a sender are as many as the suspensions stored for that sender.
C4_OneReportPerSuspension ==
    \A u \in Users : reports[u] = autobans[u]

\* the handler in slot i has returned with this outcome, after routing its
\* message through the sender's pending target
ReturnedViaPending(i, outcomes) ==
    /\ hs[i].kind = "msg"
    /\ hs[i].pc = "done"
    /\ hs[i].via = "pending"
    /\ hs[i].outcome \in outcomes

\* the pending target the handler in slot i routed through
RoutedThrough(i) == [target_id |-> hs[i].target, created_at |-> hs[i].pt_created]

\* C5: once a message has been delivered through the sender's pending target
\* the sender no longer has that pending target, so that a following non-reply
\* message finds no route.
C5_PendingClearedAfterDelivery ==
    \A i \in Slots :
        ReturnedViaPending(i, {"delivered"})
            => pending_targets[hs[i].uid] # RoutedThrough(i)

\* C6: two messages of one sender that are handled concurrently while one
\* pending target is stored are not both delivered through it.
C6_PendingConsumedOnce ==
    \A i, j \in Slots :
        ~ /\ i # j
          /\ ReturnedViaPending(i, {"delivered"})
          /\ ReturnedViaPending(j, {"delivered"})
          /\ hs[i].uid = hs[j].uid
          /\ RoutedThrough(i) = RoutedThrough(j)
          /\ hs[i].overlap

\* C7: a delivery that fails (recipient blocked the bot, deactivated, invalid
\* peer, flood wait, any other error) leaves the sender's pending target as
\* it was.
C7_FailedDeliveryKeepsPending ==
    \A i \in Slots :
        ReturnedViaPending(i, SendResults \ {"ok"})
            => pending_targets[hs[i].uid] = RoutedThrough(i)

----------------------------------------------------------------------------
(* Properties of the pending target's lifetime, checked under SpecJanitor *)

\* C8: no message is delivered through a pending target that was more than
\* 5 minutes old when the message was routed, whether or not the scheduler
\* has run since.
C8_NoDeliveryThroughExpiredPending ==
    \A i \in Slots :
        ReturnedViaPending(i, {"delivered"})
            => hs[i].route_at - hs[i].pt_created <= 5 * 60

\* C9: a pending target that has been unused for more than 5 minutes is
\* eventually deleted by the scheduler job, which is run every minute: no
\* pending target is still stored after a run of the job that was due when
\* the pending target was already more than 5 minutes old.  (Run k of the job
\* is due, and takes place, not before minute k.)
C9_ExpiredPendingDeletedBySweep ==
    \A u \in Users :
        pending_targets[u].target_id # None
            => janitor_runs * 60 <= pending_targets[u].created_at + 5 * 60

----------------------------------------------------------------------------
(* Properties of blocks, checked under SpecBlock *)

BlockRow(a, b) ==
    \E r \in blocks : r.recipient_id = a /\ r.blocked_user_id = b

\* this step commits an /unblock of user a
UnblockCommitted(a) ==
    \E i \in Slots : /\ hs[i].kind = "unblock" /\ hs[i].uid = a
                     /\ hs[i].pc = "ub_commit" /\ hs'[i].pc = "done"

\* this step decides the routing of the /start or of the message in slot i:
\* the destination is known and the store checks of can_connect have run
RoutingDecided(i) ==
    /\ hs[i].pc \in {"idle", "done", "s_use", "m_route"}
    /\ hs'[i] # hs[i]
    /\ hs'[i].kind \in {"start", "msg"}
    /\ hs'[i].pc \notin {"s_use", "m_route"}
    /\ hs'[i].target # None

RejectedAs(i, reasons) ==
    /\ hs'[i].pc \in {"done", "m_clear"}
    /\ hs'[i].outcome \in reasons

\* C10, as the spec states it: while A has blocked B, and whatever the number
\* of identity rotations of B, every routing attempt from B to A is rejected
\* as blocked.
C10_BlockedAttemptsRejectedAsBlocked ==
    [][\A i \in Slots :
          (RoutingDecided(i) /\ BlockRow(hs'[i].target, hs'[i].uid))
              => RejectedAs(i, {"blocked"})]_vars

\* C10, amended: a block of B by A is removed by an /unblock of A only, so it
\* survives every identity rotation of B; while it is stored is_blocked(A, B)
\* is true and every routing attempt from B to A is rejected, as blocked, or
\* as banned when A is banned at that moment.
C10_BlockSurvivesRotation ==
    /\ [](\A a, b \in Users : BlockRow(a, b) => is_blocked_by_user_id(a, b))
    /\ [][\A a, b \in Users :
             (BlockRow(a, b) /\ ~BlockRow(a, b)') => UnblockCommitted(a)]_vars
    /\ [][\A i \in Slots :
             (RoutingDecided(i) /\ BlockRow(hs'[i].target, hs'[i].uid))
                 => RejectedAs(i, IF is_banned(hs'[i].target) THEN {"banned"}
                                  ELSE {"blocked"})]_vars

\* B has rotated twice since A blocked it, and a message of B to A, sent after
\* the last rotation, has been rejected as blocked
C10_Witness ==
    \E i \in Slots :
        /\ hs[i].kind = "msg" /\ hs[i].pc = "done" /\ hs[i].outcome = "blocked"
        /\ revoke_count[hs[i].uid] >= 2
        /\ hs[i].route_at > last_revoke[hs[i].uid]
        /\ \E r \in blocks : /\ r.recipient_id = hs[i].target
                             /\ r.blocked_user_id = hs[i].uid
                             /\ r.nickname = <<hs[i].uid, 0>>

----------------------------------------------------------------------------
(* Properties of mutual blocks, checked under SpecMutual *)

\* this step commits a /block of user a
BlockCommitted(a) ==
    \E i \in Slots : /\ hs[i].kind = "block" /\ hs[i].uid = a
                     /\ hs[i].pc = "b_block" /\ hs'[i].pc = "done"

\* the routing decided in this step passes the store checks of can_connect
PassesStoreChecks(i) == hs'[i].pc \in {"s_chat", "m_chat"}

\* in the routing decided in this step the sender has blocked the destination,
\* the destination has not blocked the sender, and the destination is not banned
OneSidedFromBlocker(i) ==
    /\ RoutingDecided(i)
    /\ BlockRow(hs'[i].uid, hs'[i].target)
    /\ ~BlockRow(hs'[i].target, hs'[i].uid)
    /\ ~is_banned(hs'[i].target)

OneSidedFromBlocked(i) ==
    /\ RoutingDecided(i)
    /\ BlockRow(hs'[i].target, hs'[i].uid)
    /\ ~BlockRow(hs'[i].uid, hs'[i].target)
    /\ ~is_banned(hs'[i].target)

Delivered(i) ==
    /\ hs[i].kind = "msg" /\ hs[i].pc = "m_send"
    /\ hs'[i].pc = "done" /\ hs'[i].outcome = "delivered"

\* C12: a message of S is delivered to U only if, at the moment of the
\* delivery, U is not banned and U has not blocked S, whatever bans and blocks
\* were committed while the message was being handled.
C12_DeliveredOnlyIfStillAllowed ==
    [][\A i \in Slots :
          Delivered(i) => /\ ~is_banned(hs[i].target)
                          /\ ~BlockRow(hs[i].target, hs[i].uid)]_vars

----------------------------------------------------------------------------
(* Properties of the message window, checked under SpecWindow *)

\* the k-th recorded call of the pair is the first after a gap of 61 seconds or more
RunStart(c, k) == k = 1 \/ c[k] - c[k - 1] >= WindowSecs + 1

\* C13: when the last N record-and-check calls of a pair were made within 60
\* seconds, the first of them being the first call of all or following a gap
\* of 61 seconds or more, the last call returned N; so a call made after such
\* a gap returns 1.
C13_NthCallInWindowReturnsN ==
    \A i \in Slots :
        hs[i].kind = "window" =>
            LET c == hs[i].calls[<<hs[i].uid, hs[i].target>>] IN
            \A k \in 1..Len(c) :
                (RunStart(c, k) /\ c[Len(c)] - c[k] <= WindowSecs)
                    => hs[i].count = Len(c) - k + 1

\* four calls of a pair: the second 61 seconds after the first, the fourth
\* exactly 60 seconds after the second; the fourth has returned 3
C13_Witness ==
    \E i \in Slots :
        /\ hs[i].kind = "window"
        /\ LET c == hs[i].calls[<<hs[i].uid, hs[i].target>>] IN
           /\ Len(c) = 4
           /\ c[2] - c[1] = WindowSecs + 1
           /\ c[4] - c[2] = WindowSecs
           /\ hs[i].count = 3

----------------------------------------------------------------------------
(* Properties of concurrent messages of one pair, checked under SpecPair *)

\* the handler in slot i has a message of u to t in flight and has read its count
HasRead(i, u, t) ==
    /\ hs[i].kind = "msg" /\ hs[i].pc = "m_send"
    /\ hs[i].uid = u /\ hs[i].target = t

\* this step commits the add_message_timestamp of the handler in slot i
StampCommitted(i) == hs[i].pc = "m_stamp" /\ hs'[i].pc = "m_count"

\* C14: for messages of one pair handled concurrently within one window, every
\* commit of add_message_timestamp raises the window count of the pair by
\* exactly one (no timestamp is lost), and once the handlers in flight have
\* all read their count, one of them has read the number of timestamps stored.
C14_NoTimestampLost ==
    /\ [][\A i \in Slots :
             StampCommitted(i) =>
                 get_message_count_in_window(hs[i].uid, hs[i].target)' =
                     get_message_count_in_window(hs[i].uid, hs[i].target) + 1]_vars
    /\ [](\A u, t \in Users :
             (\A i \in Slots : HasRead(i, u, t)) =>
                 \E i \in Slots : hs[i].count = get_message_count_in_window(u, t))

\* two messages of u1 to u2 in flight: both timestamps were committed before
\* either handler read its count, and both have read 2
C14_Witness ==
    /\ \A i \in Slots : HasRead(i, "u1", "u2") /\ hs[i].count = 2
    /\ get_message_count_in_window("u1", "u2") = 2

----------------------------------------------------------------------------
(* Properties of the routing of messages, checked under SpecMutual *)

\* the handler in slot i has returned after delivering its message
HasDelivered(i) ==
    hs[i].kind = "msg" /\ hs[i].pc = "done" /\ hs[i].outcome = "delivered"

\* C15: once a message of S has been delivered to U and its handler has
\* returned, table messages holds a row with sender S and receiver U, and the
\* counters messages_sent of S and messages_received of U have grown.
C15_DeliveryIsRecorded ==
    \A i \in Slots :
        HasDelivered(i) =>
            /\ \E r \in messages : r.sender_id = hs[i].uid /\ r.receiver_id = hs[i].target
            /\ messages_sent[hs[i].uid] >= 1
            /\ messages_received[hs[i].target] >= 1

\* the reasons for which the validation of a destination refuses a message
RefusalReasons == {"banned", "blocked", "self_blocked", "deactivated", "invalid_peer",
                   "frozen"}

\* the handler in slot i returns in this step from a message whose destination
\* S was resolved from the reply and passed the validation
ReplyHandled(i) ==
    /\ hs'[i] # hs[i]
    /\ hs'[i].kind = "msg" /\ hs'[i].pc = "done"
    /\ hs'[i].via = "reply"
    /\ hs'[i].outcome \notin RefusalReasons

\* C16: when U replies to a message of S and the destination S passes the
\* validation, the handler has made S the pending target of U when it
\* returns, so that later non-reply messages of U go to S.
C16_ReplySetsPendingTarget ==
    [][\A i \in Slots :
          ReplyHandled(i) => pending_targets'[hs'[i].uid].target_id = hs'[i].target]_vars

\* the reply shows the current nickname of a user other than uid
Resolvable(reply, uid) ==
    /\ reply # None
    /\ \E u \in Users \ {uid} : reply = Nickname(u)

\* the tables and columns that a message without a route must leave alone
RoutingState ==
    <<pending_targets, messages, message_timestamps, messages_sent, messages_received,
      banned, ban_expires_at>>

\* the handler in slot i takes its routing step in this step
RoutingStep(i) == hs[i].kind = "msg" /\ hs[i].pc = "m_route" /\ hs'[i] # hs[i]

\* a message handler is begun in slot i in this step
BeginStep(i) == Free(i) /\ hs'[i] # hs[i] /\ hs'[i].kind = "msg"

\* C17: a message of a sender that has no pending target, and that is not a
\* reply showing the current nickname of another user, is rejected at the
\* routing step as no_connection or reply_not_found; the handler returns
\* there, so nothing is delivered, and neither its first step nor the routing
\* step changes a pending target, a message route, a rate window, a message
\* counter or a ban.
C17_NoRouteChangesNothing ==
    [][\A i \in Slots :
          /\ BeginStep(i) => UNCHANGED RoutingState
          /\ (/\ RoutingStep(i)
              /\ get_pending_target(hs[i].uid) = None
              /\ ~Resolvable(hs[i].reply, hs[i].uid))
                 => /\ hs'[i].pc = "done"
                    /\ hs'[i].outcome \in {"no_connection", "reply_not_found"}
                    /\ UNCHANGED RoutingState]_vars

\* after a rotation of the other user, a user without pending target has
\* replied to a message that shows no current nickname of another user (a
\* nickname the other held before, or its own): rejected as reply_not_found,
\* and no timestamp is stored
C17_Witness ==
    \E i \in Slots :
        /\ hs[i].kind = "msg" /\ hs[i].pc = "done"
        /\ hs[i].outcome = "reply_not_found"
        /\ get_pending_target(hs[i].uid) = None
        /\ revoke_count[Peer(hs[i].uid)] >= 1
        /\ message_timestamps = [p \in Users \X Users |-> <<>>]

----------------------------------------------------------------------------
(* Properties of self-routing, checked under SpecSelf *)

\* the handler in slot i has a destination and is past the check of it, or has
\* returned with the connection made or the message delivered
PastRouting(i) ==
    \/ hs[i].pc \in {"s_chat", "s_set", "m_chat", "m_stamp", "m_count", "m_send"}
    \/ hs[i].pc = "done" /\ hs[i].outcome \in {"connected", "delivered"}

\* C18: no pending target points to its own sender; no /start and no message
\* gets past the routing checks, is connected or is delivered with the sender
\* as destination; and a /start with the sender's own permanent token or own
\* temp link returns as a self-connection.
C18_NoSelfRouting ==
    /\ \A u \in Users : get_pending_target(u) # u
    /\ \A i \in Slots : PastRouting(i) => hs[i].target # hs[i].uid
    /\ \A i \in Slots :
          (hs[i].kind = "start" /\ hs[i].pc = "done" /\ hs[i].target = hs[i].uid)
              => hs[i].outcome = "self"

\* u1 has opened its own temp link: a use was counted, the /start returned as
\* a self-connection, and u1 has no pending target
C18_Witness ==
    \E i \in Slots :
        /\ hs[i].kind = "start" /\ hs[i].pc = "done" /\ hs[i].outcome = "self"
        /\ hs[i].tok = TheLink
        /\ temp_links[TheLink].user_id = hs[i].uid
        /\ temp_links[TheLink].current_uses >= 1
        /\ get_pending_target(hs[i].uid) = None

----------------------------------------------------------------------------
(* Properties of the special code, checked under SpecIdentity *)

\* C19: the special code of a user, as get_user_special_code returns it, is
\* the code generated from the user id in every reachable state; no step
\* changes it, and the stored column changes only from empty to that code.
C19_SpecialCodeIsStable ==
    /\ [](\A u \in Users : get_user_special_code(u) = generate_special_code(u))
    /\ [][\A u \in Users :
             get_user_special_code(u)' = get_user_special_code(u)]_vars
    /\ [][\A u \in Users :
             special_code'[u] # special_code[u]
                 => (special_code[u] = NoCode /\
                     special_code'[u] = get_user_special_code(u))]_vars

\* u1, whose stored code was empty, has rotated its identity, has been blocked
\* by u2 after the rotation and is banned; its code has been stored since,
\* and the block row carries the same code
C19_Witness ==
    /\ revoke_count["u1"] >= 1
    /\ banned["u1"]
    /\ special_code["u1"] = generate_special_code("u1")
    /\ \E r \in blocks : /\ r.recipient_id = "u2" /\ r.blocked_user_id = "u1"
                         /\ r.nickname = Nickname("u1")
                         /\ r.special_code = special_code["u1"]

----------------------------------------------------------------------------
(* Properties of the rotation cooldown, checked under SpecRevoke *)

CooldownSecs == RevokeCooldownDays * 86400

\* the seconds since the last successful rotation of u
SinceRotation(u) == now - last_revoke[u]

\* what a rotation of u replaces or deletes
IdentityOf(u) ==
    <<revoke_count[u], last_revoke[u], {r \in revoke_history : r.user_id = u},
      {t \in TempTokens : temp_links[t].exists /\ temp_links[t].user_id = u}>>

\* C20: a rotation succeeds only when the user has never rotated or at least
\* 7 days have passed since its last rotation, and a press of "confirm" in
\* that case is never answered with a wait; a press less than 7 days after
\* the last rotation is answered "wait N days" with N = 7 minus the whole
\* days elapsed, a value in 1..7, and leaves token, nickname, revoke_count,
\* last_revoke, the archive and the temp links of the user unchanged.
C20_RotationCooldown ==
    [][\A u \in Users :
          /\ revoke_count'[u] # revoke_count[u]
                => /\ last_revoke[u] = NoTime \/ SinceRotation(u) >= CooldownSecs
                   /\ revoke_answer'[u] = <<"revoke_success", 0>>
          /\ (revoke_answer'[u] # revoke_answer[u] /\ revoke_answer'[u][1] = "wait")
                => /\ last_revoke[u] # NoTime
                   /\ SinceRotation(u) < CooldownSecs
                   /\ revoke_answer'[u][2] \in 1..RevokeCooldownDays
                   /\ \E days \in 0..(RevokeCooldownDays - 1) :
                         /\ days * 86400 <= SinceRotation(u)
                         /\ SinceRotation(u) < (days + 1) * 86400
                         /\ revoke_answer'[u][2] = RevokeCooldownDays - days
                   /\ IdentityOf(u)' = IdentityOf(u)
                   /\ PermToken(u)' = PermToken(u)
                   /\ Nickname(u)' = Nickname(u)]_vars

\* u1 has rotated once, has created a temp link after it, and has pressed
\* "confirm" again six and a half days after the rotation: the answer is
\* "wait 1 day" and the link is still there
C20_Witness ==
    /\ revoke_count["u1"] = 1
    /\ revoke_answer["u1"] = <<"wait", 1>>
    /\ SinceRotation("u1") = CooldownSecs - HalfDay
    /\ temp_links[TheLink].exists /\ temp_links[TheLink].user_id = "u1"

----------------------------------------------------------------------------
(* Properties of a successful rotation, checked under SpecRevoke *)

Generations == 0..(MaxRevokes + 1)

\* the row that a rotation of u in generation g archives at time t
ArchiveRow(u, g, t) ==
    [user_id |-> u, old_token |-> <<u, g>>, old_nickname |-> <<u, g>>,
     revoked_at |-> t]

\* C21: after a successful rotation of u, get_by_token of the old token finds
\* nobody and get_by_token of the new token finds u, the old (token,
\* nickname) pair is a new row of the archive, revoke_count has grown by
\* exactly 1, and no temp link that u had issued before the rotation
\* resolves.
C21_RotationReplacesIdentity ==
    [][\A u \in Users : \A g \in Generations :
          (revoke_count[u] = g /\ revoke_count'[u] # g)
             => /\ get_by_token(<<u, g>>) = u
                /\ get_by_token(<<u, g>>)' = None
                /\ PermToken(u)' # <<u, g>>
                /\ get_by_token(PermToken(u))' = u
                /\ ArchiveRow(u, g, now) \notin revoke_history
                /\ revoke_history' = revoke_history \cup {ArchiveRow(u, g, now)}
                /\ revoke_count'[u] = g + 1
                /\ \A t \in TempTokens :
                      (temp_links[t].exists /\ temp_links[t].user_id = u)
                         => get_user_by_temp_link(t)' = None]_vars

\* u1 has rotated once: its first token finds nobody, its second token finds
\* it and the first pair is archived; a cooldown later it has a temp link
\* that resolves and the next rotation is allowed
C21_Witness ==
    /\ revoke_count["u1"] = 1
    /\ get_by_token(<<"u1", 0>>) = None
    /\ get_by_token(<<"u1", 1>>) = "u1"
    /\ \E r \in revoke_history : r.old_token = <<"u1", 0>> /\ r.old_nickname = <<"u1", 0>>
    /\ get_user_by_temp_link(TheLink) = "u1"
    /\ RevokeAllowed("u1")

----------------------------------------------------------------------------
(* Properties of the life of a temp link, checked under SpecExpiry *)

\* C22: a temp link with expires_at set resolves to its owner only at times
\* now < expires_at; at every time now >= expires_at get_user_by_temp_link
\* returns nothing, whatever max_uses and current_uses are.
C22_ResolvesOnlyBeforeExpiry ==
    \A t \in TempTokens :
       (temp_links[t].exists /\ temp_links[t].expires_at # NoTime)
          => /\ get_user_by_temp_link(t) # None => now < temp_links[t].expires_at
             /\ now >= temp_links[t].expires_at => get_user_by_temp_link(t) = None

\* a handler's await of use_temp_link returns
ConsumeStep(i) == hs[i].pc \in {"s_use", "w_use"} /\ hs'[i].pc # hs[i].pc

\* the link is active and now is before its expires_at, if it has one
ActiveUnexpired(t) ==
    /\ temp_links[t].exists /\ temp_links[t].active
    /\ temp_links[t].expires_at = NoTime \/ now < temp_links[t].expires_at

\* C23: every consume of an active link succeeds and adds exactly 1 to
\* current_uses, so current_uses counts the successful consumes; a link with
\* max_uses = m that is active and unexpired resolves to its owner while
\* current_uses < m, and resolves to nothing once current_uses has reached
\* m, also when it has not expired.
C23_ResolvesUntilMaxUses ==
    /\ [](\A t \in TempTokens :
            (temp_links[t].exists /\ temp_links[t].max_uses # NoLimit)
               => /\ (temp_links[t].current_uses < temp_links[t].max_uses
                        /\ ActiveUnexpired(t))
                         => get_user_by_temp_link(t) = temp_links[t].user_id
                  /\ temp_links[t].current_uses >= temp_links[t].max_uses
                         => get_user_by_temp_link(t) = None)
    /\ [][\A i \in Slots :
            (ConsumeStep(i) /\ temp_links[hs[i].tok].exists)
               => /\ temp_links'[hs[i].tok].current_uses =
                        temp_links[hs[i].tok].current_uses
                           + (IF temp_links[hs[i].tok].active THEN 1 ELSE 0)
                  /\ \A t \in TempTokens \ {hs[i].tok} : temp_links'[t] = temp_links[t]]_vars

\* a link with max_uses = 2 and an expiry that has not come has been opened
\* twice and resolves to nothing
C23_Witness ==
    /\ temp_links[TheLink].exists /\ temp_links[TheLink].active
    /\ temp_links[TheLink].max_uses = 2
    /\ temp_links[TheLink].current_uses = 2
    /\ temp_links[TheLink].expires_at # NoTime
    /\ now < temp_links[TheLink].expires_at
    /\ hs[1].consumed
    /\ get_user_by_temp_link(TheLink) = None

----------------------------------------------------------------------------
(* Properties of bans, checked under SpecBan *)

\* the step is an /unban of u: the row is cleared by a call that is not one
\* of the tasks of is_banned
UnbanCall(u) == ~banned'[u] /\ unban_tasks' = unban_tasks /\ now' = now

\* the step is the clock passing the expiry of the ban of u
ExpiryPasses(u) ==
    /\ now' # now
    /\ ban_expires_at[u] # NoTime
    /\ now <= ban_expires_at[u] /\ now' > ban_expires_at[u]

\* C24: a user banned at time t for a duration d is banned (is_banned) at
\* every time up to t + d, and a user banned without a duration until an
\* unban call: is_banned changes from true to false only when the clock
\* passes the stored expiry or when /unban is called.
C24_BanLastsUntilExpiryOrUnban ==
    [][\A u \in Users :
          (is_banned(u) /\ ~is_banned(u)') => (ExpiryPasses(u) \/ UnbanCall(u))]_vars

----------------------------------------------------------------------------
(* Properties of the allowed types, checked under SpecTypes *)

\* the handler in slot i passes from get_chat to the check of the tags
ValidationStep(i) == hs[i].kind = "msg" /\ hs[i].pc = "m_chat" /\ hs'[i].pc # "m_chat"

\* the k-th tag of the message in slot i is not in the allow-list of its target
Disallowed(i, k) == hs[i].types[k] \notin allowed_types[hs[i].target]

\* C25: a message goes on to the rate check and the delivery only if every
\* tag it carries is in the allow-list of its target when the tags are
\* checked; otherwise the handler ends with a rejection that names the first
\* tag of the message that is not in the list, and the rate window, the
\* pending targets, the routes and the counters are as before.
C25_OnlyAllowedTypesPass ==
    [][\A i \in Slots :
          /\ (hs'[i].pc = "m_stamp" /\ hs[i].pc # "m_stamp") => ValidationStep(i)
          /\ ValidationStep(i)
                => /\ hs'[i].pc = "m_stamp"
                        => \A k \in 1..Len(hs[i].types) : ~Disallowed(i, k)
                   /\ (\E k \in 1..Len(hs[i].types) : Disallowed(i, k))
                        => /\ hs'[i].pc = "done"
                           /\ hs'[i].outcome = "type_blocked"
                           /\ \E k \in 1..Len(hs[i].types) :
                                 /\ Disallowed(i, k)
                                 /\ \A j \in 1..(k - 1) : ~Disallowed(i, j)
                                 /\ hs'[i].blocked_type = hs[i].types[k]
                           /\ UNCHANGED <<message_timestamps, pending_targets, messages,
                                          messages_sent, messages_received>>]_vars

\* a photo with a link in its caption, sent to u2 who allows photos and has
\* locked links, was rejected naming "url"; u1 is still connected to u2 and
\* nothing was stamped
C25_Witness ==
    /\ hs[1].kind = "msg" /\ hs[1].outcome = "type_blocked"
    /\ hs[1].types = <<"photo", "url">>
    /\ hs[1].blocked_type = "url"
    /\ "photo" \in allowed_types["u2"]
    /\ get_pending_target("u1") = "u2"
    /\ message_timestamps[<<"u1", "u2">>] = <<>>

----------------------------------------------------------------------------
(* Properties of table pending_targets, checked under SpecPending *)

\* the rows of table pending_targets for one sender: none, or one target
\* with the time of its creation
PendingRows ==
    {NoPending} \cup [target_id : Users, created_at : 0..JanitorHorizon]

\* the commit of set_pending_target by the handler in slot i
SetStep(i) == hs[i].pc = "s_set" /\ hs'[i].pc # "s_set"

\* C26: every sender has at most one pending target in every state; a
\* set_pending_target for a sender that has one already leaves the sender
\* with the new target alone, created at the time of the call and not
\* before the row it replaces, and leaves the pending targets of all other
\* senders as they were.
C26_OnePendingTargetPerSender ==
    /\ [](pending_targets \in [Users -> PendingRows])
    /\ [][\A i \in Slots :
            SetStep(i)
               => /\ pending_targets'[hs[i].uid] =
                        [target_id |-> hs[i].target, created_at |-> hs[i].ts]
                  /\ hs[i].ts <= now
                  /\ pending_targets[hs[i].uid].target_id # None
                        => hs[i].ts >= pending_targets[hs[i].uid].created_at
                  /\ \A v \in Users \ {hs[i].uid} :
                        pending_targets'[v] = pending_targets[v]]_vars

\* u1, who opens the link of u3 only when it is connected to u2, is connected
\* to u3 since half a timeout after the start, and the pending target of u2,
\* set at the start, is as it was
C26_Witness ==
    /\ pending_targets["u1"] = [target_id |-> "u3", created_at |-> JanitorStep]
    /\ pending_targets["u2"] = [target_id |-> "u1", created_at |-> 0]
    /\ hs[1].uid = "u1" /\ hs[1].outcome = "connected"

----------------------------------------------------------------------------
(* Properties of table messages, checked under SpecRoutes *)

\* C27: there is at most one route per message identifier, and the sender
\* and the receiver of a route that is recorded never change: a
\* store_message under an identifier that is present does not replace the
\* row.
C27_RouteNeverReplaced ==
    /\ [](\A id \in MsgIds : Cardinality(get_message_data(id)) <= 1)
    /\ [][\A m1 \in messages, m2 \in messages' :
             m1.bot_msg_id = m2.bot_msg_id
                => /\ m2.sender_id = m1.sender_id
                   /\ m2.receiver_id = m1.receiver_id]_vars

----------------------------------------------------------------------------
(* Properties of unblock, checked under SpecUnblock *)

\* the commit of store.unblock by the handler in slot i
UnblockStep(i) == hs[i].pc = "ub_commit" /\ hs'[i].pc # "ub_commit"

\* the rows of the block list of a recipient
BlockList(recipient) == {r \in blocks : r.recipient_id = recipient}

Revoked(t) == temp_links[t].exists /\ ~temp_links[t].active

\* C29: a revoke_temp_link by the issuer of a link makes the link inactive,
\* and an inactive link stays inactive with the same current_uses until its
\* row is deleted; while it is inactive get_user_by_temp_link returns nothing
\* and use_temp_link returns false and changes nothing.
C29_RevokedLinkStaysInactive ==
    /\ [](\A t \in TempTokens :
            Revoked(t) => /\ get_user_by_temp_link(t) = None
                          /\ ~use_temp_link_returns(temp_links, t)
                          /\ use_temp_link(temp_links, t) = temp_links)
    /\ [][\A t \in TempTokens :
            /\ Revoked(t)
                  => \/ ~temp_links'[t].exists
                     \/ /\ Revoked(t)'
                        /\ temp_links'[t].current_uses = temp_links[t].current_uses
            /\ (temp_links[t].exists /\ temp_links[t].active /\ Revoked(t)')
                  => temp_links' = revoke_temp_link(temp_links, t, temp_links[t].user_id)]_vars

\* a link with a limit of 2 and an expiry that has not come was opened once
\* and revoked: it has a use left and resolves to nothing
C29_Witness ==
    /\ Revoked(TheLink)
    /\ temp_links[TheLink].max_uses = 2
    /\ temp_links[TheLink].current_uses = 1
    /\ temp_links[TheLink].expires_at # NoTime
    /\ now < temp_links[TheLink].expires_at
    /\ get_user_by_temp_link(TheLink) = None

\* the links for which get_user_by_temp_link returns u in the current state
ResolveTo(u) == {t \in TempTokens : get_user_by_temp_link(t) = u}

\* a step in which activelinks_cmd of slot i reads the list of its user
ListStep(i) ==
    /\ hs'[i] # hs[i]
    /\ hs'[i].kind = "links"
    /\ hs'[i].outcome = "listed"

\* C30: get_active_temp_links(owner) is, in every state, the set of links that
\* get_user_by_temp_link resolves to owner in that state, and a step that reads
\* the list returns that set and changes no table of the store.
C30_ListIsWhatResolves ==
    /\ [](\A u \in Users : get_active_temp_links(u) = ResolveTo(u))
    /\ [][\A i \in Slots :
            ListStep(i) =>
                /\ hs'[i].listed = ResolveTo(hs'[i].uid)
                /\ UNCHANGED <<temp_links, now, messages, messages_sent,
                               messages_received, special_code, code_tasks,
                               revoke_history, revoke_answer, banned,
                               ban_expires_at, revoke_count, last_revoke, blocks,
                               pending_targets, message_timestamps, reports,
                               autobans, janitor_runs, allowed_types>>]_vars

\* the issuer has listed a link that has one of its two uses left and still
\* resolves
C30_Witness ==
    /\ hs[1].kind = "links"
    /\ hs[1].outcome = "listed"
    /\ hs[1].uid = "u1"
    /\ hs[1].listed = {TheLink}
    /\ temp_links[TheLink].max_uses = 2
    /\ temp_links[TheLink].current_uses = 1
    /\ get_user_by_temp_link(TheLink) = "u1"

----------------------------------------------------------------------------
(* Properties of replies of a connected sender, checked under SpecReply *)

\* the handler in slot i, routed by a reply to a user other than the pending
\* target that its sender had, gets the answer of get_chat in this step
SwitchStep(i) ==
    /\ hs[i].kind = "msg" /\ hs[i].pc = "m_chat"
    /\ hs'[i] # hs[i]
    /\ hs[i].via = "reply"
    /\ hs[i].old # None
    /\ hs[i].old # hs[i].target

\* C31: a sender S with pending target P replies.  When the reply shows the
\* nickname of a user R other than S, the destination is R, and when R is not
\* P and Telegram knows R the handling goes on to the type and rate checks
\* for R; when the reply shows no known nickname, or the sender's own, the
\* destination is P.
C31_ReplyTargetBeforePendingTarget ==
    [][\A i \in Slots :
          /\ (RoutingStep(i) /\ hs[i].reply # None
                /\ get_pending_target(hs[i].uid) # None)
                => LET R == find_user_by_nickname(hs[i].reply) IN
                   IF R # None /\ R # hs[i].uid
                   THEN hs'[i].target = R
                   ELSE hs'[i].target = get_pending_target(hs[i].uid)
          /\ SwitchStep(i)
                => \/ hs'[i].outcome \in RefusalReasons
                   \/ hs'[i].pc = "m_stamp"
                   \/ hs'[i].outcome = "type_blocked"]_vars

----------------------------------------------------------------------------
(* Properties of the expiry of pending targets, checked under SpecSweep *)

\* the senders whose expired pending target is deleted in this step
ExpiredDeleted ==
    {s \in get_expired_pending_targets : pending_targets'[s].target_id = None}

\* C32: in a step that deletes expired pending targets, every user gets one
\* inactivity notice for each deleted row of which it is the sender and one
\* for each deleted row of which it is the target.
C32_ExpiryNotifiesBothSides ==
    [][\A u \in Users :
          inactivity_notices'[u] =
              inactivity_notices[u]
                 + Cardinality({s \in ExpiredDeleted : s = u})
                 + Cardinality({s \in ExpiredDeleted :
                                   pending_targets[s].target_id = u})]_vars

----------------------------------------------------------------------------
(* Properties of the retention of message routes, checked under SpecRetention *)

\* the route stored under the identifier is older than the retention window
OldRoute(id) == \E m \in get_message_data(id) : m.timestamp < now - RetentionSecs

\* C33: a route that is older than 24 hours is eventually deleted, so that
\* its identifier resolves to nothing, and a step that deletes a route
\* deletes one that is older than 24 hours.
C33_OldRoutesArePruned ==
    /\ OldRoute(1) ~> (get_message_data(1) = {})
    /\ [][\A m \in messages :
             (\A n \in messages' : n.bot_msg_id # m.bot_msg_id)
                 => m.timestamp < now - RetentionSecs]_vars


\* ban_user(u, d) is called in this step by the caller in slot i
BanCallStep(i) == hs'[i] # hs[i] /\ hs'[i].kind = "ban"

\* C34: when is_banned(u) is false, a call ban_user(u, d) returns True and
\* is_banned(u) is true after it.
C34_BanOfUnbannedUserSucceeds ==
    [][\A i \in Slots, u \in Users :
          (BanCallStep(i) /\ hs'[i].uid = u /\ ~is_banned(u))
              => /\ hs'[i].outcome = "true"
                 /\ is_banned(u)']_vars


\* a task unban_user(u) that is_banned created runs in this step
UnbanTaskStep(u) == unban_tasks'[u] < unban_tasks[u]

\* C35: a task unban_user that is_banned created for an expired ban leaves a
\* ban that has not expired in place: when the user is banned as the task
\* runs, the user is banned after it.
C35_UnbanTaskSparesNewerBan ==
    [][\A u \in Users :
          (UnbanTaskStep(u) /\ is_banned(u)) => is_banned(u)']_vars


----------------------------------------------------------------------------
(* Properties of a banned sender, checked under SpecMutual *)

\* C36: while the ban of a sender is stored and has not expired, no message
\* of that sender is delivered, whenever the handling of the message began.
C36_NoDeliveryFromBannedSender ==
    [][\A i \in Slots : Delivered(i) => ~is_banned(hs[i].uid)]_vars


\* C37: a user whose ban is stored and has not expired has no pending target
\* as a sender.
C37_BannedSenderHasNoPendingTarget ==
    \A u \in Users : is_banned(u) => get_pending_target(u) = None


----------------------------------------------------------------------------
(* Properties of concurrent rotations, checked under SpecRotate *)

\* C38: a rotation of a user succeeds only when no rotation of that user has
\* succeeded in the 7 days before it: revoke_count grows (and the archive row
\* is written with it) only in a state in which the cooldown test passes.
C38_OneRotationPerCooldown ==
    [][\A u \in Users :
          revoke_count'[u] # revoke_count[u] => RevokeAllowed(u)]_vars


----------------------------------------------------------------------------
(* Properties of the use counter in activations, checked under SpecConsume *)

\* the /start handler in slot i takes a step in this step
StartStep(i) ==
    /\ hs'[i] # hs[i]
    /\ \/ hs[i].kind = "start" /\ hs[i].pc \notin {"idle", "done"}
       \/ hs'[i].kind = "start" /\ Free(i)

\* the handler in slot i has resolved a temp link and has gone on to the
\* connection checks
PastResolve(i) ==
    /\ hs[i].kind = "start"
    /\ hs[i].tok \in TempTokens
    /\ hs[i].pc \in {"s_chat", "s_set"}
          \/ (hs[i].pc = "done" /\ hs[i].outcome \notin {"ignored", "invalid_token"})

\* C39: the step of a /start handler that follows the resolution of a temp
\* link adds exactly 1 to current_uses of that link, when its row is still
\* there, and changes no other link; no other step of a /start handler, and so
\* no step of an activation through a permanent token, changes table
\* temp_links; and the handler reaches the connection checks and its outcome
\* (self, banned, blocked, unreachable, connected) with the use counted.
C39_UseCountedBeforeConnectionChecks ==
    /\ [](\A i \in Slots :
            /\ PastResolve(i) => hs[i].consumed
            /\ (hs[i].kind = "start" /\ hs[i].tok \notin TempTokens) => ~hs[i].consumed)
    /\ [][\A i \in Slots :
            StartStep(i) =>
               IF hs[i].pc = "s_use"
               THEN \A t \in TempTokens :
                       temp_links'[t] =
                          IF t = hs[i].tok /\ temp_links[t].exists
                          THEN [temp_links[t] EXCEPT !.current_uses = @ + 1]
                          ELSE temp_links[t]
               ELSE temp_links' = temp_links]_vars

\* u1 has opened a temp link of u2 while u2 was banned: the activation was
\* refused, no pending target is stored, and the link has counted a use
C39_Witness ==
    /\ hs[1].kind = "start" /\ hs[1].pc = "done"
    /\ hs[1].tok = TheLink
    /\ hs[1].outcome = "banned"
    /\ hs[1].consumed
    /\ temp_links[TheLink].exists
    /\ temp_links[TheLink].user_id = "u2"
    /\ temp_links[TheLink].current_uses = 1
    /\ get_pending_target("u1") = None


----------------------------------------------------------------------------
(* Properties of a sender's own block list and its pending target *)

\* C40: no sender has a pending target towards a user that is on the
\* sender's own block list.
C40_NoPendingTargetTowardsBlockedUser ==
    \A s \in Users :
        get_pending_target(s) # None
            => ~is_blocked_by_user_id(s, get_pending_target(s))

=============================================================================
